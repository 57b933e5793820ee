-------------------------- MODULE EpochProgram_proofs --------------------------
(***************************************************************************)
(* Theorems about the epoch program, for every value of the constants.     *)
(***************************************************************************)
EXTENDS EpochProgram, Arithmetic_proofs

\* Tokens are held of a known kind: what the disposal of a Carnage relies on.
HeldTokenKnown == held_amount > 0 => held_token \in Token

\* EpochTypeOK is not inductive alone: that a disposal leaves a natural number in the
\* vault follows from the vault holding what the record says, which a purchase
\* preserves because the action of the pending Carnage fits the record.
FundInv == EpochTypeOK /\ HeldTokenKnown /\ ActionMatchesHoldings /\ HoldingsAreInVault

------------------------------------------------------------------------------
\* derive_taxes yields a side and rates out of the two bands.
LEMMA RatesTyped ==
  ASSUME NEW vrf \in VrfResult, NEW cheap \in Token
  PROVE  /\ derive_taxes(vrf, cheap).cheap_side \in Token
         /\ derive_taxes(vrf, cheap).tax_bps \in [Token -> [buy : Rate, sell : Rate]]
<1>1. ASSUME NEW byte \in Byte
      PROVE  LowRate(byte) \in Rate /\ HighRate(byte) \in Rate
  <2>1. (byte % 4) + 1 \in 1..4
    BY <1>1 DEF Byte
  <2>2. LowRate(byte) \in LowRates /\ HighRate(byte) \in HighRates
    BY <2>1 DEF LowRate, HighRate, LowRates, HighRates
  <2> QED BY <2>2 DEF Rate
<1>2. \A i \in 0..7 : vrf[i] \in Byte
  BY DEF VrfResult
<1>3. NewCheapSide(vrf, cheap) \in Token
  BY DEF NewCheapSide, Opposite, Token
<1>4. ASSUME NEW t \in Token, NEW side \in Token
      PROVE  TokenRates(vrf, t, side) \in [buy : Rate, sell : Rate]
  <2>1. LowRoll(vrf, t) \in Rate /\ HighRoll(vrf, t) \in Rate
    BY <1>1, <1>2 DEF LowRoll, HighRoll
  <2> QED BY <2>1 DEF TokenRates
<1> QED
  BY <1>3, <1>4 DEF derive_taxes

\* The extremes of four rates are rates.
LEMMA SummaryTyped ==
  ASSUME NEW taxes \in [Token -> [buy : Rate, sell : Rate]]
  PROVE  lowest_rate(taxes) \in Rate /\ highest_rate(taxes) \in Rate
  BY DEF lowest_rate, highest_rate, Lesser, Greater, Token

------------------------------------------------------------------------------
(***************************************************************************)
(* What an execution of a Carnage computes.                                *)
(***************************************************************************)
\* A sale yields a natural number of lamports and leaves the target's pool with
\* positive reserves.
LEMMA SaleTyped ==
  ASSUME EpochTypeOK, HeldTokenKnown, NEW carnage \in Carnage, NEW pools \in Pools
  PROVE  /\ SolFromSale(carnage, pools) \in Nat
         /\ TargetPool(carnage, pools) \in [sol : Nat \ {0}, token : Nat \ {0}]
<1>1. \A t \in Token : pools[t] \in [sol : Nat \ {0}, token : Nat \ {0}]
  BY EnvironmentAssumption DEF Pools
<1>2. carnage.target \in Token /\ held_amount \in Nat
  BY DEF EpochTypeOK, Carnage
<1>3. CASE Disposes(carnage, "Sell")
  <2> DEFINE sol == pools[held_token].sol
             token == pools[held_token].token
             out == SwapOutput(held_amount, token, sol)
  <2>1. held_token \in Token
    BY <1>2, <1>3 DEF Disposes, HeldTokenKnown
  <2>2. sol \in Nat \ {0} /\ token \in Nat \ {0}
    BY <1>1, <2>1
  <2>3. out \in Nat /\ out < sol
    BY <1>2, <2>2, SwapOutputNat, SwapLeavesReserve
  <2>4. SolFromSale(carnage, pools) = out
    BY <1>3 DEF SolFromSale
  <2> HIDE DEF out
  <2>5. CASE carnage.target = held_token
    <3>1. TargetPool(carnage, pools) = [sol |-> sol - out, token |-> token + held_amount]
      BY <1>3, <2>4, <2>5 DEF TargetPool
    <3> QED BY <1>2, <2>2, <2>3, <2>4, <3>1
  <2>6. CASE carnage.target # held_token
    BY <1>1, <1>2, <2>3, <2>4, <2>6 DEF TargetPool
  <2> QED BY <2>5, <2>6
<1>4. CASE ~Disposes(carnage, "Sell")
  BY <1>1, <1>2, <1>4 DEF SolFromSale, TargetPool
<1> QED BY <1>3, <1>4

\* A Carnage takes from the vault no more than it spends and than the vault can
\* spare, and spends no more than the cap and than it has.
LEMMA SpendingBounds ==
  ASSUME EpochTypeOK, NEW sale \in Nat
  PROVE  /\ BuyAmount(sale) \in Nat
         /\ WrapAmount(sale) \in Nat
         /\ BuyAmount(sale) <= MAX_CARNAGE_SWAP
         /\ WrapAmount(sale) <= BuyAmount(sale)
         /\ BuyAmount(sale) <= sale + WrapAmount(sale)
         /\ WrapAmount(sale) <= AvailableSol
         /\ AvailableSol \in Nat
         /\ AvailableSol <= sol_vault
         /\ sol_vault >= RENT_EXEMPT_MIN => sol_vault - AvailableSol >= RENT_EXEMPT_MIN
<1>1. sol_vault \in Nat /\ RENT_EXEMPT_MIN \in Nat /\ MAX_CARNAGE_SWAP \in Nat
  BY LamportAssumption DEF EpochTypeOK
<1>2. /\ AvailableSol \in Nat
      /\ AvailableSol <= sol_vault
      /\ sol_vault >= RENT_EXEMPT_MIN => sol_vault - AvailableSol >= RENT_EXEMPT_MIN
  BY <1>1 DEF AvailableSol, saturating_sub
<1>3. /\ SwapAmount \in Nat
      /\ SwapAmount <= AvailableSol
  BY <1>1, <1>2 DEF SwapAmount, Lesser
<1>4. /\ BuyAmount(sale) \in Nat
      /\ BuyAmount(sale) <= MAX_CARNAGE_SWAP
      /\ BuyAmount(sale) <= SwapAmount + sale
  BY <1>1, <1>3 DEF BuyAmount, Lesser
<1>5. /\ WrapAmount(sale) \in Nat
      /\ WrapAmount(sale) <= BuyAmount(sale)
      /\ WrapAmount(sale) <= AvailableSol
      /\ BuyAmount(sale) <= sale + WrapAmount(sale)
  BY <1>2, <1>3, <1>4 DEF WrapAmount, saturating_sub
<1> QED BY <1>2, <1>4, <1>5

\* A buy yields a natural number of tokens.
LEMMA BoughtTyped ==
  ASSUME NEW buy \in Nat, NEW pool \in [sol : Nat \ {0}, token : Nat \ {0}]
  PROVE  TokensBought(buy, pool) \in Nat
  BY SwapOutputNat DEF TokensBought

\* Disposing of the holdings empties the vaults, unless the action of the
\* Carnage leaves them alone.
LEMMA DisposalTyped ==
  ASSUME FundInv, NEW carnage
  PROVE  DisposedVault(carnage) \in [Token -> Nat]
<1>1. ASSUME NEW t \in Token
      PROVE  /\ token_vault[t] \in Nat
             /\ t = held_token => token_vault[t] = held_amount
  BY <1>1 DEF FundInv, EpochTypeOK, HoldingsAreInVault
<1>2. held_amount \in Nat
  BY DEF FundInv, EpochTypeOK
<1>3. ASSUME NEW t \in Token, t = held_token
      PROVE  token_vault[t] - held_amount \in Nat
  BY <1>1, <1>2, <1>3
<1> QED
  BY <1>1, <1>3 DEF DisposedVault

------------------------------------------------------------------------------
(***************************************************************************)
(* FundInv is inductive.                                                   *)
(***************************************************************************)
USE DEF epochVars, requestVars, vrfVars, taxVars, armVars, pendingVars, fundVars

\* The fund starts empty, with nothing pending.
LEMMA FundInit == Init => FundInv
<1> SUFFICES ASSUME Init PROVE FundInv
  OBVIOUS
<1>1. EpochTypeOK
  <2>1. 300 \in Rate /\ 1400 \in Rate
    BY DEF Rate, LowRates, HighRates, LOW_RATES, HIGH_RATES
  <2>2. tax_bps \in [Token -> [buy : Rate, sell : Rate]]
    BY <2>1 DEF Init
  <2>3. randomness \in [RandomnessAccount -> Randomness]
    BY DEF Init, Randomness
  <2> QED
    BY <2>1, <2>2, <2>3, TimingAssumption, LamportAssumption
    DEF Init, InitCarnageFund, EpochTypeOK, Token, CarnageAction
<1>2. HeldTokenKnown /\ ActionMatchesHoldings /\ HoldingsAreInVault
  BY DEF Init, InitCarnageFund, HeldTokenKnown, ActionMatchesHoldings,
         HoldingsAreInVault, Token, NoToken
<1> QED BY <1>1, <1>2 DEF FundInv

\* Epochs, boundaries and deadlines are natural numbers.
LEMMA SlotsTyped ==
  ASSUME EpochTypeOK
  PROVE  /\ expected_epoch(slot) \in Nat
         /\ start_slot(expected_epoch(slot)) \in Nat
         /\ slot + CARNAGE_DEADLINE_SLOTS \in Nat
         /\ slot + CARNAGE_LOCK_SLOTS \in Nat
<1>1. slot \in Nat /\ saturating_sub(slot, GenesisSlot) \in Nat
  BY TimingAssumption DEF EpochTypeOK, saturating_sub
<1>2. expected_epoch(slot) \in Nat
  BY <1>1, TimingAssumption, DivNat DEF expected_epoch
<1>3. expected_epoch(slot) * SLOTS_PER_EPOCH \in Nat
  BY <1>2, TimingAssumption, ProductNat
<1> QED BY <1>1, <1>2, <1>3, TimingAssumption DEF start_slot

\* A randomness account keeps its type as slots pass.
LEMMA OlderTyped ==
  ASSUME NEW r \in Randomness
  PROVE  Older(r) \in Randomness
  BY DEF Randomness, Older, Lesser

\* Type correctness, action by action: the clock,
LEMMA TickTyped == EpochTypeOK /\ Tick => EpochTypeOK'
  BY OlderTyped DEF Tick, EpochTypeOK

\* the epoch transition, whose bounty the vault can pay,
LEMMA TriggerTyped ==
  ASSUME EpochTypeOK, NEW a \in RandomnessAccount, NEW r \in Randomness,
         trigger_epoch_transition(a, r),
         randomness' \in [RandomnessAccount -> Randomness]
  PROVE  EpochTypeOK'
<1>1. sol_vault - (IF BountyPaid THEN TRIGGER_BOUNTY ELSE 0) \in Nat
  BY LamportAssumption DEF EpochTypeOK, BountyPaid
<1> QED
  BY <1>1, SlotsTyped DEF trigger_epoch_transition, EpochTypeOK

\* the replacement of a request,
LEMMA RetryTyped ==
  ASSUME EpochTypeOK, NEW a \in RandomnessAccount, NEW r \in Randomness,
         retry_epoch_vrf(a, r),
         randomness' \in [RandomnessAccount -> Randomness]
  PROVE  EpochTypeOK'
  BY DEF retry_epoch_vrf, EpochTypeOK

\* the end of an epoch,
LEMMA FinalizeTyped ==
  ASSUME EpochTypeOK, NEW a, NEW r, NEW vrf \in VrfSample, FinalizeEpoch(a, r, vrf)
  PROVE  /\ UNCHANGED <<slot, epochVars, requestVars>>
         /\ vrf_pending' \in BOOLEAN
         /\ taxes_confirmed' \in BOOLEAN
         /\ cheap_side' \in Token
         /\ tax_bps' \in [Token -> [buy : Rate, sell : Rate]]
         /\ low_tax_bps' \in Rate
         /\ high_tax_bps' \in Rate
         /\ finalized_epoch' \in Nat
<1>1. vrf \in VrfResult
  BY EnvironmentAssumption
<1>2. /\ cheap_side' \in Token
      /\ tax_bps' \in [Token -> [buy : Rate, sell : Rate]]
      /\ low_tax_bps' \in Rate
      /\ high_tax_bps' \in Rate
  BY <1>1, RatesTyped, SummaryTyped DEF FinalizeEpoch, SetTaxes, EpochTypeOK
<1> QED
  BY <1>2 DEF FinalizeEpoch, UpdateCumulative, EpochTypeOK

\* the window of a Carnage,
LEMMA WindowTyped ==
  ASSUME EpochTypeOK, NEW target \in Token, OpenWindow(target) \/ UNCHANGED armVars
  PROVE  /\ carnage_target' \in Token
         /\ carnage_deadline_slot' \in Nat
         /\ carnage_lock_slot' \in Nat
<1>1. CASE OpenWindow(target)
  BY <1>1, SlotsTyped DEF OpenWindow
<1>2. CASE UNCHANGED armVars
  BY <1>2 DEF EpochTypeOK
<1> QED BY <1>1, <1>2

\* A Carnage fits the holdings if it disposes of what there is.
Fits(carnage) == carnage.action = "None" <=> held_amount = 0

\* The Carnage decided by a result is typed and fits,
LEMMA DecidedTyped ==
  ASSUME EpochTypeOK, NEW vrf
  PROVE  Decided(vrf) \in Carnage /\ Fits(Decided(vrf))
<1>1. /\ get_carnage_action(vrf, held_amount > 0) \in CarnageAction
      /\ get_carnage_action(vrf, held_amount > 0) = "None" <=> held_amount = 0
  BY DEF get_carnage_action, CarnageAction, EpochTypeOK
<1>2. get_carnage_target(vrf) \in Token
  BY DEF get_carnage_target, Token
<1> QED BY <1>1, <1>2 DEF Decided, Carnage, Fits

\* and so does the one on record, as long as it is pending.
LEMMA PendingTyped ==
  ASSUME FundInv
  PROVE  Pending \in Carnage /\ (carnage_pending => Fits(Pending))
  BY DEF FundInv, EpochTypeOK, ActionMatchesHoldings, Pending, Carnage, Fits

\* Type correctness is preserved by the consumption of a result,
LEMMA ConsumeTyped ==
  ASSUME EpochTypeOK, NEW a \in RandomnessAccount, NEW r \in Randomness,
         NEW vrf \in VrfSample, NEW with \in BOOLEAN,
         consume_randomness(a, r, vrf, with),
         randomness' \in [RandomnessAccount -> Randomness]
  PROVE  EpochTypeOK'
<1>1. /\ FinalizeEpoch(a, r, vrf)
      /\ UNCHANGED <<fundVars, sol_vault>>
  BY DEF consume_randomness
<1>2. /\ carnage_pending' \in BOOLEAN
      /\ carnage_action' \in CarnageAction
      /\ carnage_target' \in Token
      /\ carnage_deadline_slot' \in Nat
      /\ carnage_lock_slot' \in Nat
  <2>1. CASE ArmCarnage(Decided(vrf))
    <3>1. Decided(vrf).action \in CarnageAction /\ Decided(vrf).target \in Token
      BY DecidedTyped DEF Carnage
    <3> QED BY <2>1, <3>1, WindowTyped DEF ArmCarnage
  <2>2. CASE DropStaleCarnage
    BY <2>2 DEF DropStaleCarnage, EpochTypeOK, CarnageAction
  <2> QED BY <2>1, <2>2 DEF consume_randomness
<1> QED
  BY <1>1, <1>2, FinalizeTyped DEF EpochTypeOK

\* and the execution of a Carnage, whose burn or sale the vaults can pay,
LEMMA ExecuteTyped ==
  ASSUME FundInv, NEW carnage \in Carnage, NEW pools \in Pools, NEW bps,
         execute_carnage_core(carnage, pools, bps)
  PROVE  /\ held_token' \in Token \cup {NoToken}
         /\ held_amount' \in Nat
         /\ total_sol_spent' \in Nat
         /\ total_burned' \in [Token -> Nat]
         /\ total_triggers' \in Nat
         /\ last_trigger_epoch' \in Nat
         /\ last_carnage_epoch' \in Nat
         /\ sol_vault' \in Nat
         /\ carnage_wsol' \in Nat
         /\ token_vault' \in [Token -> Nat]
         /\ carnage_pending' \in BOOLEAN
         /\ carnage_action' \in CarnageAction
<1> DEFINE sale == SolFromSale(carnage, pools)
           buy  == BuyAmount(sale)
           bought == TokensBought(buy, TargetPool(carnage, pools))
<1>1. EpochTypeOK /\ HeldTokenKnown /\ carnage.target \in Token
  BY DEF FundInv, Carnage
<1>2. /\ sale \in Nat
      /\ TargetPool(carnage, pools) \in [sol : Nat \ {0}, token : Nat \ {0}]
  BY <1>1, SaleTyped
<1>3. /\ buy \in Nat
      /\ bought \in Nat
      /\ sol_vault - WrapAmount(sale) \in Nat
      /\ carnage_wsol + sale + WrapAmount(sale) - buy \in Nat
  <2> HIDE DEF sale
  <2>1. bought \in Nat
    BY <1>1, <1>2, SpendingBounds, BoughtTyped
  <2> QED BY <2>1, <1>1, <1>2, SpendingBounds DEF EpochTypeOK
<1>4. total_burned' \in [Token -> Nat]
  BY <1>1 DEF execute_carnage_core, EpochTypeOK
<1>5. token_vault' \in [Token -> Nat]
  <2>1. DisposedVault(carnage) \in [Token -> Nat]
    BY DisposalTyped
  <2>2. token_vault' = [DisposedVault(carnage) EXCEPT ![carnage.target] = @ + bought]
    BY DEF execute_carnage_core
  <2>3. DisposedVault(carnage)[carnage.target] + bought \in Nat
    BY <1>1, <1>3, <2>1
  <2> HIDE DEF bought
  <2> QED BY <2>1, <2>2, <2>3
<1>6. /\ held_amount' = bought
      /\ sol_vault' = sol_vault - WrapAmount(sale)
      /\ carnage_wsol' = carnage_wsol + sale + WrapAmount(sale) - buy
      /\ total_sol_spent' = total_sol_spent + buy
  BY DEF execute_carnage_core
<1>7. /\ held_token' = carnage.target
      /\ total_triggers' = total_triggers + 1
      /\ last_trigger_epoch' = current_epoch
      /\ carnage_pending' = FALSE
      /\ carnage_action' = "None"
      /\ last_carnage_epoch' = current_epoch
  BY DEF execute_carnage_core
<1> HIDE DEF sale, buy, bought
<1>8. /\ held_amount' \in Nat
      /\ sol_vault' \in Nat
      /\ carnage_wsol' \in Nat
      /\ total_sol_spent' \in Nat
  BY <1>1, <1>3, <1>6 DEF EpochTypeOK
<1>9. /\ held_token' \in Token \cup {NoToken}
      /\ total_triggers' \in Nat
      /\ last_trigger_epoch' \in Nat
      /\ last_carnage_epoch' \in Nat
  BY <1>1, <1>7 DEF EpochTypeOK
<1>10. carnage_pending' \in BOOLEAN /\ carnage_action' \in CarnageAction
  BY <1>7 DEF CarnageAction
<1> QED
  BY <1>4, <1>5, <1>8, <1>9, <1>10

\* in a transaction of its own.
LEMMA ExecutePendingTyped ==
  ASSUME FundInv, NEW pools \in Pools, NEW bps, ExecutePending(pools, bps)
  PROVE  EpochTypeOK'
<1>1. execute_carnage_core(Pending, pools, bps)
  BY DEF ExecutePending
<1>2. Pending \in Carnage
  BY PendingTyped
<1> QED
  BY <1>1, <1>2, ExecuteTyped DEF ExecutePending, FundInv, EpochTypeOK

\* The crank's transaction consumes a result, and may execute a Carnage with it.
LEMMA BundleShape ==
  ASSUME NEW a, NEW vrf, NEW pools, RevealConsumeAndExecute(a, vrf, pools)
  PROVE  \E r \in {[randomness[a] EXCEPT !.value = "now"]} :
           /\ randomness' = [randomness EXCEPT ![a] = r]
           /\ \/ consume_randomness(a, r, vrf, TRUE)
              \/ /\ FinalizeEpoch(a, r, vrf)
                 /\ \E carnage \in {Pending, Decided(vrf)} :
                      /\ carnage = Decided(vrf) \/ carnage_pending
                      /\ execute_carnage_core(carnage, pools, CARNAGE_SLIPPAGE_BPS_ATOMIC)
                 /\ OpenWindow(get_carnage_target(vrf)) \/ UNCHANGED armVars
  BY DEF RevealConsumeAndExecute

\* Apart from the reveal, that is a consumption, or an execution with it.
Bundled(a, r, vrf, pools) ==
  \/ consume_randomness(a, r, vrf, TRUE)
  \/ /\ FinalizeEpoch(a, r, vrf)
     /\ \E carnage \in {Pending, Decided(vrf)} :
          /\ carnage = Decided(vrf) \/ carnage_pending
          /\ execute_carnage_core(carnage, pools, CARNAGE_SLIPPAGE_BPS_ATOMIC)

\* Every such transaction is of that form.
LEMMA BundleIsBundled ==
  ASSUME NEW a, NEW vrf, NEW pools, RevealConsumeAndExecute(a, vrf, pools)
  PROVE  \E r : Bundled(a, r, vrf, pools)
<1> DEFINE r == [randomness[a] EXCEPT !.value = "now"]
<1>1. \/ consume_randomness(a, r, vrf, TRUE)
      \/ /\ FinalizeEpoch(a, r, vrf)
         /\ carnage_pending
         /\ execute_carnage_core(Pending, pools, CARNAGE_SLIPPAGE_BPS_ATOMIC)
      \/ /\ FinalizeEpoch(a, r, vrf)
         /\ execute_carnage_core(Decided(vrf), pools, CARNAGE_SLIPPAGE_BPS_ATOMIC)
  BY DEF RevealConsumeAndExecute
<1> HIDE DEF r
<1>2. Bundled(a, r, vrf, pools)
  BY <1>1 DEF Bundled
<1> QED BY <1>2

\* The randomness accounts instructions read are of their type.
LEMMA AccountsTyped ==
  ASSUME EpochTypeOK, NEW a \in RandomnessAccount
  PROVE  /\ randomness[a] \in Randomness
         /\ Committed \in Randomness
         /\ [randomness[a] EXCEPT !.value = "now"] \in Randomness
  BY DEF EpochTypeOK, Randomness, Committed

\* Type correctness is preserved by the crank's transaction too.
LEMMA BundleTyped ==
  ASSUME FundInv, NEW a \in RandomnessAccount, NEW vrf \in VrfSample, NEW pools \in Pools,
         RevealConsumeAndExecute(a, vrf, pools)
  PROVE  EpochTypeOK'
<1>t. EpochTypeOK
  BY DEF FundInv
<1>1. PICK r \in {[randomness[a] EXCEPT !.value = "now"]} :
           /\ randomness' = [randomness EXCEPT ![a] = r]
           /\ \/ consume_randomness(a, r, vrf, TRUE)
              \/ /\ FinalizeEpoch(a, r, vrf)
                 /\ \E carnage \in {Pending, Decided(vrf)} :
                      /\ carnage = Decided(vrf) \/ carnage_pending
                      /\ execute_carnage_core(carnage, pools, CARNAGE_SLIPPAGE_BPS_ATOMIC)
                 /\ OpenWindow(get_carnage_target(vrf)) \/ UNCHANGED armVars
  BY BundleShape
<1>2. r \in Randomness
  BY <1>t, <1>1, AccountsTyped
<1>3. randomness' \in [RandomnessAccount -> Randomness]
  BY <1>t, <1>1, <1>2 DEF EpochTypeOK
<1>4. CASE consume_randomness(a, r, vrf, TRUE)
  BY <1>t, <1>2, <1>3, <1>4, ConsumeTyped
<1>5. ASSUME FinalizeEpoch(a, r, vrf),
             NEW carnage \in {Pending, Decided(vrf)},
             execute_carnage_core(carnage, pools, CARNAGE_SLIPPAGE_BPS_ATOMIC),
             OpenWindow(get_carnage_target(vrf)) \/ UNCHANGED armVars
      PROVE  EpochTypeOK'
  <2>1. carnage \in Carnage
    BY <1>t, PendingTyped, DecidedTyped
  <2>2. get_carnage_target(vrf) \in Token
    BY DEF get_carnage_target, Token
  <2>3. /\ carnage_target' \in Token
        /\ carnage_deadline_slot' \in Nat
        /\ carnage_lock_slot' \in Nat
    BY <1>t, <1>5, <2>2, WindowTyped
  <2>4. /\ UNCHANGED <<slot, epochVars, requestVars>>
        /\ vrf_pending' \in BOOLEAN
        /\ taxes_confirmed' \in BOOLEAN
        /\ cheap_side' \in Token
        /\ tax_bps' \in [Token -> [buy : Rate, sell : Rate]]
        /\ low_tax_bps' \in Rate
        /\ high_tax_bps' \in Rate
        /\ finalized_epoch' \in Nat
    BY <1>t, <1>5, FinalizeTyped
  <2> QED
    BY <1>t, <1>3, <1>5, <2>1, <2>3, <2>4, ExecuteTyped DEF EpochTypeOK
<1> QED BY <1>1, <1>4, <1>5

\* Every step preserves type correctness, given the rest of the invariant.
LEMMA TypeStep == FundInv /\ [Next]_vars => EpochTypeOK'
<1> SUFFICES ASSUME FundInv, [Next]_vars PROVE EpochTypeOK'
  OBVIOUS
<1>t. EpochTypeOK
  BY DEF FundInv
<1>1. CASE Tick
  BY <1>1, <1>t, TickTyped
<1>2. ASSUME NEW a \in RandomnessAccount, Commit(a) PROVE EpochTypeOK'
  BY <1>2, <1>t, AccountsTyped DEF Commit, OnlyRandomness, EpochTypeOK
<1>3. ASSUME NEW a \in RandomnessAccount, Reveal(a) PROVE EpochTypeOK'
  <2>1. randomness' \in [RandomnessAccount -> Randomness]
    BY <1>3, <1>t, AccountsTyped DEF Reveal, EpochTypeOK
  <2> QED BY <2>1, <1>3, <1>t DEF Reveal, OnlyRandomness, EpochTypeOK
<1>4. ASSUME NEW a \in RandomnessAccount, TriggerEpochTransition(a) PROVE EpochTypeOK'
  BY <1>4, <1>t, AccountsTyped, TriggerTyped DEF TriggerEpochTransition, EpochTypeOK
<1>5. ASSUME NEW a \in RandomnessAccount, CommitAndTrigger(a) PROVE EpochTypeOK'
  <2>1. randomness' \in [RandomnessAccount -> Randomness]
    BY <1>5, <1>t, AccountsTyped DEF CommitAndTrigger, EpochTypeOK
  <2> QED BY <2>1, <1>5, <1>t, AccountsTyped, TriggerTyped DEF CommitAndTrigger
<1>6. ASSUME NEW a \in RandomnessAccount, RetryEpochVrf(a) PROVE EpochTypeOK'
  BY <1>6, <1>t, AccountsTyped, RetryTyped DEF RetryEpochVrf, EpochTypeOK
<1>7. ASSUME NEW a \in RandomnessAccount, CommitAndRetry(a) PROVE EpochTypeOK'
  <2>1. randomness' \in [RandomnessAccount -> Randomness]
    BY <1>7, <1>t, AccountsTyped DEF CommitAndRetry, EpochTypeOK
  <2> QED BY <2>1, <1>7, <1>t, AccountsTyped, RetryTyped DEF CommitAndRetry
<1>8. ASSUME NEW a \in RandomnessAccount, NEW vrf \in VrfSample, RevealAndConsume(a, vrf)
      PROVE EpochTypeOK'
  <2>1. randomness' \in [RandomnessAccount -> Randomness]
    BY <1>8, <1>t, AccountsTyped DEF RevealAndConsume, EpochTypeOK
  <2> QED BY <2>1, <1>8, <1>t, AccountsTyped, ConsumeTyped DEF RevealAndConsume
<1>9. ASSUME NEW a \in RandomnessAccount, NEW vrf \in VrfSample, NEW with \in BOOLEAN,
             ConsumeRandomness(a, vrf, with)
      PROVE EpochTypeOK'
  BY <1>9, <1>t, AccountsTyped, ConsumeTyped DEF ConsumeRandomness, EpochTypeOK
<1>10. ASSUME NEW pools \in Pools, execute_carnage(pools) PROVE EpochTypeOK'
  BY <1>10, ExecutePendingTyped DEF execute_carnage
<1>11. ASSUME NEW pools \in Pools, execute_carnage_atomic(pools) PROVE EpochTypeOK'
  <2>1. CASE carnage_pending
    BY <1>11, <2>1, ExecutePendingTyped DEF execute_carnage_atomic
  <2>2. CASE ~carnage_pending
    BY <1>11, <2>2, <1>t DEF execute_carnage_atomic, vars, EpochTypeOK
  <2> QED BY <2>1, <2>2
<1>12. CASE expire_carnage
  BY <1>12, <1>t DEF expire_carnage, EpochTypeOK, CarnageAction
<1>13. ASSUME NEW lamports \in Deposits, Deposit(lamports) PROVE EpochTypeOK'
  BY <1>13, <1>t, LamportAssumption DEF Deposit, EpochTypeOK
<1>14. ASSUME NEW a \in RandomnessAccount, NEW vrf \in VrfSample, NEW pools \in Pools,
              RevealConsumeAndExecute(a, vrf, pools)
       PROVE EpochTypeOK'
  BY <1>14, BundleTyped
<1>15. CASE UNCHANGED vars
  BY <1>15, <1>t DEF vars, EpochTypeOK
<1> QED
  BY <1>1, <1>2, <1>3, <1>4, <1>5, <1>6, <1>7, <1>8, <1>9, <1>10, <1>11, <1>12,
     <1>13, <1>14, <1>15 DEF Next

Holdings == HeldTokenKnown /\ ActionMatchesHoldings /\ HoldingsAreInVault

\* The holdings stay in order while their variables do not change,
LEMMA HoldingsUntouched ==
  ASSUME Holdings,
         UNCHANGED <<held_token, held_amount, token_vault, carnage_pending, carnage_action>>
  PROVE  Holdings'
  BY DEF Holdings, HeldTokenKnown, ActionMatchesHoldings, HoldingsAreInVault

\* when a result arms a Carnage whose action fits them,
LEMMA ConsumeHoldings ==
  ASSUME EpochTypeOK, Holdings, NEW a, NEW r, NEW vrf, NEW with,
         consume_randomness(a, r, vrf, with)
  PROVE  Holdings'
<1>1. UNCHANGED <<held_token, held_amount, token_vault>>
  BY DEF consume_randomness
<1>2. ActionMatchesHoldings'
  <2>1. CASE ArmCarnage(Decided(vrf))
    BY <1>1, <2>1, DecidedTyped DEF ArmCarnage, Fits, ActionMatchesHoldings
  <2>2. CASE DropStaleCarnage
    BY <1>1, <2>2 DEF DropStaleCarnage, Holdings, ActionMatchesHoldings
  <2> QED BY <2>1, <2>2 DEF consume_randomness
<1> QED
  BY <1>1, <1>2 DEF Holdings, HeldTokenKnown, HoldingsAreInVault

\* and when a Carnage disposes of them and buys new ones.
LEMMA ExecuteHoldings ==
  ASSUME FundInv, NEW carnage \in Carnage, Fits(carnage), NEW pools \in Pools, NEW bps,
         execute_carnage_core(carnage, pools, bps)
  PROVE  Holdings'
<1> DEFINE bought == TokensBought(BuyAmount(SolFromSale(carnage, pools)), TargetPool(carnage, pools))
<1>1. /\ held_token' = carnage.target
      /\ held_amount' = bought
      /\ token_vault' = [DisposedVault(carnage) EXCEPT ![carnage.target] = @ + bought]
      /\ carnage_pending' = FALSE
  BY DEF execute_carnage_core
<1>2. bought \in Nat
  BY ExecuteTyped, <1>1
<1>3. carnage.target \in Token
  BY DEF Carnage
<1>4. \A t \in Token : DisposedVault(carnage)[t] = 0
  <2>1. CASE held_amount = 0
    BY <2>1 DEF FundInv, HoldingsAreInVault, DisposedVault, Disposes
  <2>2. CASE held_amount # 0
    <3>1. held_amount > 0 /\ carnage.action \in {"Burn", "Sell"}
      BY <2>2 DEF FundInv, EpochTypeOK, Fits, Carnage, CarnageAction
    <3>2. Disposes(carnage, "Burn") \/ Disposes(carnage, "Sell")
      BY <3>1 DEF Disposes
    <3>3. ASSUME NEW t \in Token PROVE DisposedVault(carnage)[t] = 0
      <4>1. CASE t = held_token
        <5>1. DisposedVault(carnage)[t] = token_vault[t] - held_amount
          BY <3>2, <4>1 DEF DisposedVault
        <5>2. token_vault[t] = held_amount
          BY <4>1 DEF FundInv, HoldingsAreInVault
        <5>3. held_amount \in Nat
          BY DEF FundInv, EpochTypeOK
        <5> QED BY <5>1, <5>2, <5>3
      <4>2. CASE t # held_token
        BY <4>2 DEF DisposedVault, FundInv, HoldingsAreInVault
      <4> QED BY <4>1, <4>2
    <3> QED BY <3>3
  <2> QED BY <2>1, <2>2
<1> HIDE DEF bought
<1>5. HoldingsAreInVault'
  <2>1. DisposedVault(carnage) \in [Token -> Nat]
    BY DisposalTyped
  <2>2. \A t \in Token : token_vault'[t] = IF t = carnage.target THEN bought ELSE 0
    BY <1>1, <1>2, <1>3, <1>4, <2>1
  <2> QED BY <1>1, <2>2 DEF HoldingsAreInVault
<1> QED
  BY <1>1, <1>3, <1>5 DEF Holdings, HeldTokenKnown, ActionMatchesHoldings

\* Every step keeps the holdings in order.
LEMMA HoldingsStep == FundInv /\ [Next]_vars => Holdings'
<1> SUFFICES ASSUME FundInv, [Next]_vars PROVE Holdings'
  OBVIOUS
<1>t. EpochTypeOK /\ Holdings
  BY DEF FundInv, Holdings
<1>1. CASE Tick
  BY <1>1, <1>t, HoldingsUntouched DEF Tick
<1>2. ASSUME NEW a \in RandomnessAccount,
             \/ Commit(a) \/ Reveal(a)
             \/ TriggerEpochTransition(a) \/ CommitAndTrigger(a)
             \/ RetryEpochVrf(a) \/ CommitAndRetry(a)
      PROVE Holdings'
  BY <1>2, <1>t, HoldingsUntouched
  DEF Commit, Reveal, OnlyRandomness, TriggerEpochTransition, CommitAndTrigger,
      trigger_epoch_transition, RetryEpochVrf, CommitAndRetry, retry_epoch_vrf
<1>3. ASSUME NEW a \in RandomnessAccount, NEW vrf \in VrfSample, RevealAndConsume(a, vrf)
      PROVE Holdings'
  BY <1>3, <1>t, ConsumeHoldings DEF RevealAndConsume
<1>4. ASSUME NEW a \in RandomnessAccount, NEW vrf \in VrfSample, NEW with \in BOOLEAN,
             ConsumeRandomness(a, vrf, with)
      PROVE Holdings'
  BY <1>4, <1>t, ConsumeHoldings DEF ConsumeRandomness
<1>5. ASSUME NEW pools \in Pools, execute_carnage(pools) PROVE Holdings'
  BY <1>5, ExecuteHoldings, PendingTyped DEF execute_carnage, ExecutePending
<1>6. ASSUME NEW pools \in Pools, execute_carnage_atomic(pools) PROVE Holdings'
  <2>1. CASE carnage_pending
    BY <1>6, <2>1, ExecuteHoldings, PendingTyped DEF execute_carnage_atomic, ExecutePending
  <2>2. CASE ~carnage_pending
    BY <1>6, <2>2, <1>t, HoldingsUntouched DEF execute_carnage_atomic, vars
  <2> QED BY <2>1, <2>2
<1>7. CASE expire_carnage
  BY <1>7, <1>t
  DEF expire_carnage, Holdings, HeldTokenKnown, ActionMatchesHoldings, HoldingsAreInVault
<1>8. ASSUME NEW lamports \in Deposits, Deposit(lamports) PROVE Holdings'
  BY <1>8, <1>t, HoldingsUntouched DEF Deposit
<1>9. ASSUME NEW a \in RandomnessAccount, NEW vrf \in VrfSample, NEW pools \in Pools,
             RevealConsumeAndExecute(a, vrf, pools)
      PROVE Holdings'
  <2>1. PICK r : Bundled(a, r, vrf, pools)
    BY <1>9, BundleIsBundled
  <2>2. CASE consume_randomness(a, r, vrf, TRUE)
    BY <1>t, <2>2, ConsumeHoldings
  <2>3. ASSUME NEW carnage \in {Pending, Decided(vrf)},
               carnage = Decided(vrf) \/ carnage_pending,
               execute_carnage_core(carnage, pools, CARNAGE_SLIPPAGE_BPS_ATOMIC)
        PROVE  Holdings'
    <3>1. carnage \in Carnage /\ Fits(carnage)
      BY <1>t, <2>3, PendingTyped, DecidedTyped
    <3> QED BY <2>3, <3>1, ExecuteHoldings
  <2> QED BY <2>1, <2>2, <2>3 DEF Bundled
<1>10. CASE UNCHANGED vars
  BY <1>10, <1>t, HoldingsUntouched DEF vars
<1> QED
  BY <1>1, <1>2, <1>3, <1>4, <1>5, <1>6, <1>7, <1>8, <1>9, <1>10 DEF Next

\* The fund's invariant holds in every reachable state.
LEMMA FundInvariant == Spec => []FundInv
<1>1. FundInv /\ [Next]_vars => FundInv'
  BY TypeStep, HoldingsStep DEF FundInv, Holdings
<1> QED
  BY FundInit, <1>1, PTL DEF Spec

\* Every field keeps its type, whatever order the transactions come in; in
\* particular no balance becomes negative, so no checked subtraction of the
\* handlers fails.
THEOREM TypeCorrect == Spec => []EpochTypeOK
  BY FundInvariant, PTL DEF FundInv

\* A Carnage finds the holdings its action was chosen for: consume_randomness
\* chooses it, other transactions come between, execute_carnage_core uses it.
THEOREM ActionAlwaysMatchesHoldings == Spec => []ActionMatchesHoldings
  BY FundInvariant, PTL DEF FundInv

\* The token vaults hold exactly what the fund's record says.
THEOREM HoldingsAlwaysInVault == Spec => []HoldingsAreInVault
  BY FundInvariant, PTL DEF FundInv

------------------------------------------------------------------------------
(***************************************************************************)
(* Epochs, requests and staking.                                           *)
(***************************************************************************)
EpochInv == PendingMatchesStaking /\ finalized_epoch <= current_epoch

\* At genesis staking and the program agree on epoch 0.
LEMMA EpochInit == Init => EpochInv
  BY DEF Init, InitCarnageFund, EpochInv, PendingMatchesStaking

\* The epochs stay in order while their variables do not change,
LEMMA EpochUntouched ==
  ASSUME EpochInv,
         UNCHANGED <<current_epoch, vrf_pending, taxes_confirmed, finalized_epoch>>
  PROVE  EpochInv'
  BY DEF EpochInv, PendingMatchesStaking

\* when a transition puts the program ahead of staking,
LEMMA TriggerEpoch ==
  ASSUME EpochTypeOK, EpochInv, NEW a, NEW r, trigger_epoch_transition(a, r)
  PROVE  EpochInv'
<1>1. /\ current_epoch' > current_epoch
      /\ current_epoch' \in Nat
      /\ vrf_pending' /\ ~taxes_confirmed'
      /\ UNCHANGED finalized_epoch
  BY SlotsTyped DEF trigger_epoch_transition
<1>2. finalized_epoch \in Nat /\ current_epoch \in Nat
  BY DEF EpochTypeOK
<1>3. finalized_epoch' < current_epoch'
  BY <1>1, <1>2 DEF EpochInv
<1>4. PendingMatchesStaking'
  BY <1>1, <1>3 DEF PendingMatchesStaking
<1>5. (finalized_epoch <= current_epoch)'
  BY <1>1, <1>2, <1>3
<1> QED
  BY <1>4, <1>5 DEF EpochInv

\* when a result lets staking catch up,
LEMMA ConsumeEpoch ==
  ASSUME EpochTypeOK, EpochInv, NEW a, NEW r, NEW vrf, NEW with,
         consume_randomness(a, r, vrf, with)
  PROVE  EpochInv'
<1>1. /\ finalized_epoch < current_epoch
      /\ finalized_epoch' = current_epoch
      /\ ~vrf_pending' /\ taxes_confirmed'
      /\ UNCHANGED current_epoch
  BY DEF consume_randomness, FinalizeEpoch, UpdateCumulative, EpochTypeOK
<1>2. finalized_epoch \in Nat /\ current_epoch \in Nat
  BY DEF EpochTypeOK
<1> QED
  BY <1>1, <1>2 DEF EpochInv, PendingMatchesStaking

\* and when a result is consumed and a Carnage executed in one transaction.
LEMMA BundleEpoch ==
  ASSUME EpochTypeOK, EpochInv, NEW a, NEW r, NEW vrf, NEW carnage, NEW pools, NEW bps,
         FinalizeEpoch(a, r, vrf), execute_carnage_core(carnage, pools, bps)
  PROVE  EpochInv'
<1>1. /\ finalized_epoch < current_epoch
      /\ finalized_epoch' = current_epoch
      /\ ~vrf_pending' /\ taxes_confirmed'
      /\ UNCHANGED current_epoch
  BY DEF FinalizeEpoch, UpdateCumulative, EpochTypeOK
<1>2. finalized_epoch \in Nat /\ current_epoch \in Nat
  BY DEF EpochTypeOK
<1> QED
  BY <1>1, <1>2 DEF EpochInv, PendingMatchesStaking

\* Every step keeps the epochs in order.
LEMMA EpochStep == EpochTypeOK /\ EpochInv /\ [Next]_vars => EpochInv'
<1> SUFFICES ASSUME EpochTypeOK, EpochInv, [Next]_vars PROVE EpochInv'
  OBVIOUS
<1>1. CASE Tick
  BY <1>1, EpochUntouched DEF Tick
<1>2. ASSUME NEW a \in RandomnessAccount,
             Commit(a) \/ Reveal(a) \/ RetryEpochVrf(a) \/ CommitAndRetry(a)
      PROVE EpochInv'
  BY <1>2, EpochUntouched
  DEF Commit, Reveal, OnlyRandomness, RetryEpochVrf, CommitAndRetry, retry_epoch_vrf
<1>3. ASSUME NEW a \in RandomnessAccount, TriggerEpochTransition(a) \/ CommitAndTrigger(a)
      PROVE EpochInv'
  BY <1>3, TriggerEpoch DEF TriggerEpochTransition, CommitAndTrigger
<1>4. ASSUME NEW a \in RandomnessAccount, NEW vrf \in VrfSample, RevealAndConsume(a, vrf)
      PROVE EpochInv'
  BY <1>4, ConsumeEpoch DEF RevealAndConsume
<1>5. ASSUME NEW a \in RandomnessAccount, NEW vrf \in VrfSample, NEW with \in BOOLEAN,
             ConsumeRandomness(a, vrf, with)
      PROVE EpochInv'
  BY <1>5, ConsumeEpoch DEF ConsumeRandomness
<1>6. ASSUME NEW pools \in Pools, execute_carnage(pools) PROVE EpochInv'
  BY <1>6, EpochUntouched DEF execute_carnage, ExecutePending, epochVars, vrfVars
<1>7. ASSUME NEW pools \in Pools, execute_carnage_atomic(pools) PROVE EpochInv'
  <2>1. CASE carnage_pending
    BY <1>7, <2>1, EpochUntouched
    DEF execute_carnage_atomic, ExecutePending, epochVars, vrfVars
  <2>2. CASE ~carnage_pending
    BY <1>7, <2>2, EpochUntouched DEF execute_carnage_atomic, vars
  <2> QED BY <2>1, <2>2
<1>8. CASE expire_carnage
  BY <1>8, EpochUntouched DEF expire_carnage, epochVars, vrfVars
<1>9. ASSUME NEW lamports \in Deposits, Deposit(lamports) PROVE EpochInv'
  BY <1>9, EpochUntouched DEF Deposit
<1>10. ASSUME NEW a \in RandomnessAccount, NEW vrf \in VrfSample, NEW pools \in Pools,
              RevealConsumeAndExecute(a, vrf, pools)
       PROVE EpochInv'
  <2>1. PICK r : Bundled(a, r, vrf, pools)
    BY <1>10, BundleIsBundled
  <2> QED BY <2>1, ConsumeEpoch, BundleEpoch DEF Bundled
<1>11. CASE UNCHANGED vars
  BY <1>11, EpochUntouched DEF vars
<1> QED
  BY <1>1, <1>2, <1>3, <1>4, <1>5, <1>6, <1>7, <1>8, <1>9, <1>10, <1>11 DEF Next

\* The epochs are in order in every reachable state.
LEMMA EpochInvariant == Spec => []EpochInv
  BY EpochInit, EpochStep, TypeCorrect, PTL DEF Spec

\* consume_randomness is never refused by staking, and staking never sees an
\* epoch twice: the request is outstanding exactly while staking is behind.
THEOREM PendingAlwaysMatchesStaking == Spec => []PendingMatchesStaking
  BY EpochInvariant, PTL DEF EpochInv

------------------------------------------------------------------------------
(***************************************************************************)
(* The program implements the lifecycle.                                   *)
(***************************************************************************)
LifecycleStep == [Lifecycle!Next]_(Lifecycle!lifecycle)

\* Steps that leave the mapped variables alone are stutters.
LEMMA LifecycleUntouched ==
  ASSUME UNCHANGED <<current_epoch, finalized_epoch, tax_bps, carnage_pending,
                     total_triggers>>
  PROVE  LifecycleStep
  BY DEF LifecycleStep, Lifecycle!lifecycle

\* An epoch transition requests an epoch,
LEMMA TriggerIsRequest ==
  ASSUME EpochTypeOK, EpochInv, NEW a, NEW r, trigger_epoch_transition(a, r)
  PROVE  Lifecycle!Request
<1>1. finalized_epoch = current_epoch
  BY DEF trigger_epoch_transition, EpochInv, PendingMatchesStaking
<1>2. current_epoch' > current_epoch
  BY SlotsTyped DEF trigger_epoch_transition, EpochTypeOK
<1> QED
  BY <1>1, <1>2 DEF trigger_epoch_transition, Lifecycle!Request

\* a consumed result finalises it,
LEMMA ConsumeIsFinalize ==
  ASSUME EpochTypeOK, EpochTypeOK', EpochInv, NEW a, NEW r, NEW vrf, NEW with,
         consume_randomness(a, r, vrf, with)
  PROVE  Lifecycle!Finalize
<1>1. finalized_epoch < current_epoch /\ finalized_epoch' = current_epoch
  BY DEF consume_randomness, FinalizeEpoch, UpdateCumulative, EpochTypeOK
<1>2. carnage_pending' \in BOOLEAN
  BY DEF EpochTypeOK
<1>3. UNCHANGED <<current_epoch, total_triggers>>
  BY DEF consume_randomness, FinalizeEpoch
<1> QED
  BY <1>1, <1>2, <1>3 DEF Lifecycle!Finalize

\* the crank's transaction may execute a Carnage with it,
LEMMA BundleIsFinalizeAndExecute ==
  ASSUME EpochTypeOK, EpochInv, NEW a, NEW r, NEW vrf, NEW carnage, NEW pools, NEW bps,
         FinalizeEpoch(a, r, vrf), execute_carnage_core(carnage, pools, bps)
  PROVE  Lifecycle!FinalizeAndExecute
<1>1. /\ finalized_epoch < current_epoch
      /\ finalized_epoch' = current_epoch
      /\ UNCHANGED current_epoch
  BY DEF FinalizeEpoch, UpdateCumulative, EpochTypeOK
<1>2. total_triggers' = total_triggers + 1 /\ carnage_pending' = FALSE
  BY DEF execute_carnage_core
<1> QED
  BY <1>1, <1>2 DEF Lifecycle!FinalizeAndExecute

\* and a Carnage executed alone is the one that was waiting.
LEMMA ExecutionIsExecute ==
  ASSUME carnage_pending, NEW pools, NEW bps, ExecutePending(pools, bps)
  PROVE  Lifecycle!Execute
<1>1. /\ carnage_pending' = FALSE
      /\ total_triggers' = total_triggers + 1
      /\ UNCHANGED <<current_epoch, finalized_epoch, tax_bps>>
  BY DEF ExecutePending, execute_carnage_core
<1> QED BY <1>1 DEF Lifecycle!Execute

\* Every step is a step of the lifecycle or a stutter.
LEMMA StepImplementsLifecycle ==
  EpochTypeOK /\ EpochTypeOK' /\ EpochInv /\ [Next]_vars => LifecycleStep
<1> SUFFICES ASSUME EpochTypeOK, EpochTypeOK', EpochInv, [Next]_vars PROVE LifecycleStep
  OBVIOUS
<1>0. Lifecycle!Next => LifecycleStep
  BY DEF LifecycleStep
<1>1. CASE Tick
  BY <1>1, LifecycleUntouched DEF Tick
<1>2. ASSUME NEW a \in RandomnessAccount,
             Commit(a) \/ Reveal(a) \/ RetryEpochVrf(a) \/ CommitAndRetry(a)
      PROVE LifecycleStep
  BY <1>2, LifecycleUntouched
  DEF Commit, Reveal, OnlyRandomness, RetryEpochVrf, CommitAndRetry, retry_epoch_vrf
<1>3. ASSUME NEW a \in RandomnessAccount, TriggerEpochTransition(a) \/ CommitAndTrigger(a)
      PROVE LifecycleStep
  BY <1>0, <1>3, TriggerIsRequest
  DEF TriggerEpochTransition, CommitAndTrigger, Lifecycle!Next
<1>4. ASSUME NEW a \in RandomnessAccount, NEW vrf \in VrfSample, RevealAndConsume(a, vrf)
      PROVE LifecycleStep
  BY <1>0, <1>4, ConsumeIsFinalize DEF RevealAndConsume, Lifecycle!Next
<1>5. ASSUME NEW a \in RandomnessAccount, NEW vrf \in VrfSample, NEW with \in BOOLEAN,
             ConsumeRandomness(a, vrf, with)
      PROVE LifecycleStep
  BY <1>0, <1>5, ConsumeIsFinalize DEF ConsumeRandomness, Lifecycle!Next
<1>6. ASSUME NEW pools \in Pools, execute_carnage(pools) PROVE LifecycleStep
  BY <1>0, <1>6, ExecutionIsExecute DEF execute_carnage, Lifecycle!Next
<1>7. ASSUME NEW pools \in Pools, execute_carnage_atomic(pools) PROVE LifecycleStep
  <2>1. CASE carnage_pending
    BY <1>0, <1>7, <2>1, ExecutionIsExecute DEF execute_carnage_atomic, Lifecycle!Next
  <2>2. CASE ~carnage_pending
    BY <1>7, <2>2, LifecycleUntouched DEF execute_carnage_atomic, vars
  <2> QED BY <2>1, <2>2
<1>8. CASE expire_carnage
  <2>1. Lifecycle!Drop
    BY <1>8 DEF expire_carnage, Lifecycle!Drop
  <2> QED BY <1>0, <2>1 DEF Lifecycle!Next
<1>9. ASSUME NEW lamports \in Deposits, Deposit(lamports) PROVE LifecycleStep
  BY <1>9, LifecycleUntouched DEF Deposit
<1>10. ASSUME NEW a \in RandomnessAccount, NEW vrf \in VrfSample, NEW pools \in Pools,
              RevealConsumeAndExecute(a, vrf, pools)
       PROVE LifecycleStep
  <2>1. PICK r : Bundled(a, r, vrf, pools)
    BY <1>10, BundleIsBundled
  <2> QED BY <1>0, <2>1, ConsumeIsFinalize, BundleIsFinalizeAndExecute
          DEF Bundled, Lifecycle!Next
<1>11. CASE UNCHANGED vars
  BY <1>11, LifecycleUntouched DEF vars
<1> QED
  BY <1>1, <1>2, <1>3, <1>4, <1>5, <1>6, <1>7, <1>8, <1>9, <1>10, <1>11 DEF Next

\* For every epoch length, timeout and window, and whatever order the
\* transactions come in, the program is an implementation of the lifecycle.
THEOREM Refinement == Spec => ImplementsLifecycle
<1>1. Init => Lifecycle!Init
  BY DEF Init, InitCarnageFund, Lifecycle!Init
<1> QED
  BY <1>1, StepImplementsLifecycle, TypeCorrect, EpochInvariant, PTL
  DEF Spec, ImplementsLifecycle, Lifecycle!Spec, LifecycleStep

------------------------------------------------------------------------------
(***************************************************************************)
(* The SOL vault and the Carnage request.                                  *)
(***************************************************************************)
\* What an execution spends, and takes from the vault.
LEMMA ExecuteSpending ==
  ASSUME FundInv, NEW carnage \in Carnage, NEW pools \in Pools, NEW bps,
         execute_carnage_core(carnage, pools, bps)
  PROVE  /\ total_sol_spent' - total_sol_spent <= MAX_CARNAGE_SWAP
         /\ sol_vault - sol_vault' <= total_sol_spent' - total_sol_spent
         /\ RentIsKept => RentIsKept'
<1> DEFINE sale == SolFromSale(carnage, pools)
<1>1. EpochTypeOK /\ sale \in Nat
  BY SaleTyped DEF FundInv
<1>2. /\ sol_vault' = sol_vault - WrapAmount(sale)
      /\ total_sol_spent' = total_sol_spent + BuyAmount(sale)
  BY DEF execute_carnage_core
<1> HIDE DEF sale
<1>3. sol_vault \in Nat /\ total_sol_spent \in Nat /\ MAX_CARNAGE_SWAP \in Nat
      /\ RENT_EXEMPT_MIN \in Nat
  BY <1>1, LamportAssumption DEF EpochTypeOK
<1> QED
  BY <1>1, <1>2, <1>3, SpendingBounds DEF RentIsKept

\* Only the execution of a Carnage counts one.
LEMMA OnlyExecutionsCount ==
  ASSUME FundInv, [Next]_vars, total_triggers' # total_triggers
  PROVE  \E carnage \in Carnage, pools \in Pools, bps \in {7500, 8500} :
           execute_carnage_core(carnage, pools, bps)
<1>1. ~ \/ Tick \/ expire_carnage \/ UNCHANGED vars
        \/ \E a \in RandomnessAccount :
             \/ Commit(a) \/ Reveal(a)
             \/ TriggerEpochTransition(a) \/ CommitAndTrigger(a)
             \/ RetryEpochVrf(a) \/ CommitAndRetry(a)
        \/ \E a \in RandomnessAccount, vrf \in VrfSample :
             \/ RevealAndConsume(a, vrf)
             \/ \E with \in BOOLEAN : ConsumeRandomness(a, vrf, with)
        \/ \E lamports \in Deposits : Deposit(lamports)
  BY DEF Tick, expire_carnage, vars, Commit, Reveal, OnlyRandomness, TriggerEpochTransition,
      CommitAndTrigger, trigger_epoch_transition, RetryEpochVrf, CommitAndRetry,
      retry_epoch_vrf, RevealAndConsume, ConsumeRandomness, consume_randomness, Deposit
<1>2. CASE \E pools \in Pools : execute_carnage(pools) \/ execute_carnage_atomic(pools)
  <2>1. Pending \in Carnage
    BY PendingTyped
  <2> QED
    BY <1>1, <1>2, <2>1
    DEF execute_carnage, execute_carnage_atomic, ExecutePending,
        CARNAGE_SLIPPAGE_BPS_ATOMIC, CARNAGE_SLIPPAGE_BPS_FALLBACK
<1>3. ASSUME NEW a \in RandomnessAccount, NEW vrf \in VrfSample, NEW pools \in Pools,
             RevealConsumeAndExecute(a, vrf, pools)
      PROVE \E carnage \in Carnage : execute_carnage_core(carnage, pools, 8500)
  <2>1. PICK r : Bundled(a, r, vrf, pools)
    BY <1>3, BundleIsBundled
  <2>2. Pending \in Carnage /\ Decided(vrf) \in Carnage
    BY PendingTyped, DecidedTyped DEF FundInv
  <2>3. ~consume_randomness(a, r, vrf, TRUE)
    BY DEF consume_randomness
  <2>4. PICK carnage \in {Pending, Decided(vrf)} :
          execute_carnage_core(carnage, pools, CARNAGE_SLIPPAGE_BPS_ATOMIC)
    BY <2>1, <2>3 DEF Bundled
  <2> QED
    BY <2>2, <2>4 DEF CARNAGE_SLIPPAGE_BPS_ATOMIC
<1> QED
  BY <1>1, <1>2, <1>3 DEF Next

\* Every step keeps the rent in the vault.
LEMMA RentStep == FundInv /\ RentIsKept /\ [Next]_vars => RentIsKept'
<1> SUFFICES ASSUME FundInv, RentIsKept, [Next]_vars PROVE RentIsKept'
  OBVIOUS
<1>t. EpochTypeOK
  BY DEF FundInv
<1>1. CASE \/ Tick \/ expire_carnage \/ UNCHANGED vars
           \/ \E a \in RandomnessAccount :
                Commit(a) \/ Reveal(a) \/ RetryEpochVrf(a) \/ CommitAndRetry(a)
           \/ \E a \in RandomnessAccount, vrf \in VrfSample :
                \/ RevealAndConsume(a, vrf)
                \/ \E with \in BOOLEAN : ConsumeRandomness(a, vrf, with)
  BY <1>1
  DEF RentIsKept, Tick, expire_carnage, vars, Commit, Reveal, OnlyRandomness,
      RetryEpochVrf, CommitAndRetry, retry_epoch_vrf, RevealAndConsume,
      ConsumeRandomness, consume_randomness
<1>2. ASSUME NEW a \in RandomnessAccount, TriggerEpochTransition(a) \/ CommitAndTrigger(a)
      PROVE RentIsKept'
  <2>1. sol_vault' = sol_vault - (IF BountyPaid THEN TRIGGER_BOUNTY ELSE 0)
    BY <1>2 DEF TriggerEpochTransition, CommitAndTrigger, trigger_epoch_transition
  <2> QED
    BY <1>t, <2>1, LamportAssumption DEF RentIsKept, BountyPaid, EpochTypeOK
<1>3. CASE total_triggers' # total_triggers
  BY <1>3, OnlyExecutionsCount, ExecuteSpending
<1>4. ASSUME NEW lamports \in Deposits, Deposit(lamports) PROVE RentIsKept'
  BY <1>4, <1>t, LamportAssumption DEF Deposit, RentIsKept, EpochTypeOK
<1>5. ASSUME total_triggers' = total_triggers,
             NEW pools \in Pools, execute_carnage(pools) \/ execute_carnage_atomic(pools)
      PROVE RentIsKept'
  BY <1>t, <1>5
  DEF execute_carnage, execute_carnage_atomic, ExecutePending, execute_carnage_core,
      RentIsKept, vars, EpochTypeOK
<1>6. ASSUME total_triggers' = total_triggers,
             NEW a \in RandomnessAccount, NEW vrf \in VrfSample, NEW pools \in Pools,
             RevealConsumeAndExecute(a, vrf, pools)
      PROVE RentIsKept'
  <2>1. PICK r : Bundled(a, r, vrf, pools)
    BY <1>6, BundleIsBundled
  <2> QED
    BY <1>t, <1>6, <2>1 DEF Bundled, consume_randomness, execute_carnage_core, RentIsKept, EpochTypeOK
<1> QED
  BY <1>1, <1>2, <1>3, <1>4, <1>5, <1>6 DEF Next

\* Neither bounties nor Carnages take the vault's rent.
THEOREM RentAlwaysKept == Spec => []RentIsKept
<1>1. Init => RentIsKept
  BY LamportAssumption DEF Init, InitCarnageFund, RentIsKept
<1> QED
  BY <1>1, RentStep, FundInvariant, PTL DEF Spec

\* No Carnage spends more than the cap, whatever its sale brings in.
THEOREM SpendingAlwaysCapped == Spec => SpendingIsCapped
<1> DEFINE Capped == LET spent == total_sol_spent' - total_sol_spent
                     IN total_triggers' # total_triggers =>
                          /\ spent <= MAX_CARNAGE_SWAP
                          /\ sol_vault - sol_vault' <= spent
<1>1. FundInv /\ [Next]_vars => [Capped]_vars
  BY OnlyExecutionsCount, ExecuteSpending
<1>2. SpendingIsCapped <=> [][Capped]_vars
  BY DEF SpendingIsCapped
<1> HIDE DEF Capped
<1>3. Spec => [][Capped]_vars
  BY <1>1, FundInvariant, PTL DEF Spec
<1> QED BY <1>2, <1>3

\* A pending Carnage is dropped only after its deadline: the transitions and the
\* results that follow it do not cancel it.
THEOREM CarnageNeverCancelled == Spec => CarnageIsNotCancelled
<1> DEFINE NotCancelled == carnage_pending /\ ~carnage_pending' =>
                             \/ total_triggers' = total_triggers + 1
                             \/ slot > carnage_deadline_slot
<1>1. ASSUME [Next]_vars PROVE NotCancelled
  <2>1. CASE \/ Tick \/ UNCHANGED vars
             \/ \E a \in RandomnessAccount :
                  \/ Commit(a) \/ Reveal(a)
                  \/ TriggerEpochTransition(a) \/ CommitAndTrigger(a)
                  \/ RetryEpochVrf(a) \/ CommitAndRetry(a)
             \/ \E lamports \in Deposits : Deposit(lamports)
    BY <2>1 DEF Tick, vars, Commit, Reveal, OnlyRandomness, TriggerEpochTransition,
                CommitAndTrigger, trigger_epoch_transition, RetryEpochVrf, CommitAndRetry,
                retry_epoch_vrf, Deposit
  <2>2. ASSUME NEW a, NEW r, NEW vrf, NEW with, consume_randomness(a, r, vrf, with)
        PROVE  NotCancelled
    BY <2>2 DEF consume_randomness, ArmCarnage, DropStaleCarnage, CarnageStale
  <2>3. ASSUME NEW a \in RandomnessAccount, NEW vrf \in VrfSample,
               \/ RevealAndConsume(a, vrf)
               \/ \E with \in BOOLEAN : ConsumeRandomness(a, vrf, with)
        PROVE  NotCancelled
    <3>1. PICK r, with : consume_randomness(a, r, vrf, with)
      BY <2>3 DEF RevealAndConsume, ConsumeRandomness
    <3> QED BY <2>2, <3>1
  <2>4. ASSUME NEW pools \in Pools, execute_carnage(pools) \/ execute_carnage_atomic(pools)
        PROVE  NotCancelled
    BY <2>4 DEF execute_carnage, execute_carnage_atomic, ExecutePending,
                execute_carnage_core, vars
  <2>5. CASE expire_carnage
    BY <2>5 DEF expire_carnage, CarnageStale
  <2>6. ASSUME NEW a \in RandomnessAccount, NEW vrf \in VrfSample, NEW pools \in Pools,
               RevealConsumeAndExecute(a, vrf, pools)
        PROVE  NotCancelled
    <3>1. PICK r : Bundled(a, r, vrf, pools)
      BY <2>6, BundleIsBundled
    <3> QED BY <2>2, <3>1 DEF Bundled, execute_carnage_core
  <2> QED BY <1>1, <2>1, <2>3, <2>4, <2>5, <2>6 DEF Next
<1>2. CarnageIsNotCancelled <=> [][NotCancelled]_vars
  BY DEF CarnageIsNotCancelled
<1>3. [Next]_vars => [NotCancelled]_vars
  BY <1>1
<1> HIDE DEF NotCancelled
<1> QED BY <1>2, <1>3, PTL DEF Spec

------------------------------------------------------------------------------
(***************************************************************************)
(* Epochs and the clock.                                                   *)
(***************************************************************************)
ClockInv == EpochFollowsClock /\ GenesisSlot <= slot

\* The epoch the clock is in began at a boundary no later than now.
LEMMA EpochHasBegun ==
  ASSUME EpochTypeOK, GenesisSlot <= slot
  PROVE  start_slot(expected_epoch(slot)) <= slot
<1> DEFINE n == slot - GenesisSlot
           epoch == n \div SLOTS_PER_EPOCH
<1>1. n \in Nat /\ SLOTS_PER_EPOCH \in Nat \ {0} /\ slot \in Nat /\ GenesisSlot \in Nat
  BY TimingAssumption DEF EpochTypeOK
<1>2. epoch \in Nat /\ SLOTS_PER_EPOCH * epoch <= n
  <2> HIDE DEF n
  <2> QED BY <1>1, DivNat, DivBounds
<1>3. expected_epoch(slot) = epoch
  BY <1>1 DEF expected_epoch, saturating_sub
<1> HIDE DEF epoch
<1>4. /\ SLOTS_PER_EPOCH * epoch = epoch * SLOTS_PER_EPOCH
      /\ epoch * SLOTS_PER_EPOCH \in Nat
  BY <1>1, <1>2
<1> QED BY <1>1, <1>2, <1>3, <1>4 DEF start_slot

\* The clock's invariant holds on while no request is made.
LEMMA ClockUntouched ==
  ASSUME ClockInv,
         UNCHANGED <<slot, current_epoch, epoch_start_slot, vrf_request_slot>>,
         vrf_pending' => vrf_pending
  PROVE  ClockInv'
  BY DEF ClockInv, EpochFollowsClock, start_slot

\* Every step preserves the clock's invariant.
LEMMA ClockStep == EpochTypeOK /\ ClockInv /\ [Next]_vars => ClockInv'
<1> SUFFICES ASSUME EpochTypeOK, ClockInv, [Next]_vars PROVE ClockInv'
  OBVIOUS
<1>0. slot \in Nat /\ epoch_start_slot \in Nat /\ vrf_request_slot \in Nat /\ GenesisSlot \in Nat
  BY TimingAssumption DEF EpochTypeOK
<1>1. CASE Tick
  BY <1>0, <1>1 DEF Tick, ClockInv, EpochFollowsClock, start_slot
<1>2. ASSUME NEW a \in RandomnessAccount, TriggerEpochTransition(a) \/ CommitAndTrigger(a)
      PROVE ClockInv'
  <2>1. /\ current_epoch' = expected_epoch(slot)
        /\ epoch_start_slot' = start_slot(expected_epoch(slot))
        /\ vrf_request_slot' = slot
        /\ slot' = slot
    BY <1>2 DEF TriggerEpochTransition, CommitAndTrigger, trigger_epoch_transition
  <2>2. start_slot(expected_epoch(slot)) <= slot
    BY EpochHasBegun DEF ClockInv
  <2>3. start_slot(current_epoch)' = start_slot(expected_epoch(slot))
    BY <2>1 DEF start_slot
  <2> QED BY <1>0, <2>1, <2>2, <2>3 DEF ClockInv, EpochFollowsClock
<1>3. ASSUME NEW a \in RandomnessAccount, RetryEpochVrf(a) \/ CommitAndRetry(a)
      PROVE ClockInv'
  BY <1>0, <1>3
  DEF RetryEpochVrf, CommitAndRetry, retry_epoch_vrf, ClockInv, EpochFollowsClock, start_slot
<1>4. CASE \/ expire_carnage \/ UNCHANGED vars
           \/ \E a \in RandomnessAccount : Commit(a) \/ Reveal(a)
           \/ \E lamports \in Deposits : Deposit(lamports)
  BY <1>4, ClockUntouched
  DEF expire_carnage, vars, Commit, Reveal, OnlyRandomness, Deposit
<1>5. ASSUME NEW a \in RandomnessAccount, NEW vrf \in VrfSample,
             \/ RevealAndConsume(a, vrf)
             \/ \E with \in BOOLEAN : ConsumeRandomness(a, vrf, with)
      PROVE ClockInv'
  <2>1. PICK r, with : consume_randomness(a, r, vrf, with)
    BY <1>5 DEF RevealAndConsume, ConsumeRandomness
  <2>2. /\ UNCHANGED <<slot, current_epoch, epoch_start_slot, vrf_request_slot>>
        /\ vrf_pending' = FALSE
    BY <2>1 DEF consume_randomness, FinalizeEpoch
  <2> QED BY <2>2, ClockUntouched
<1>6. ASSUME NEW pools \in Pools, execute_carnage(pools) \/ execute_carnage_atomic(pools)
      PROVE ClockInv'
  <2>1. /\ UNCHANGED <<slot, current_epoch, epoch_start_slot, vrf_request_slot>>
        /\ vrf_pending' => vrf_pending
    BY <1>6 DEF execute_carnage, execute_carnage_atomic, ExecutePending, vars
  <2> QED BY <2>1, ClockUntouched
<1>7. ASSUME NEW a \in RandomnessAccount, NEW vrf \in VrfSample, NEW pools \in Pools,
             RevealConsumeAndExecute(a, vrf, pools)
      PROVE ClockInv'
  <2>1. \E r : FinalizeEpoch(a, r, vrf)
    BY <1>7 DEF RevealConsumeAndExecute, consume_randomness
  <2>2. /\ UNCHANGED <<slot, current_epoch, epoch_start_slot, vrf_request_slot>>
        /\ vrf_pending' = FALSE
    BY <2>1 DEF FinalizeEpoch
  <2> QED BY <2>2, ClockUntouched
<1> QED BY <1>1, <1>2, <1>3, <1>4, <1>5, <1>6, <1>7 DEF Next

\* However many epochs the crank misses, the epoch on record is one the clock has
\* reached, and a request is younger than its epoch.
THEOREM EpochAlwaysFollowsClock == Spec => []EpochFollowsClock
<1>1. Init => ClockInv
  BY TimingAssumption DEF Init, ClockInv, EpochFollowsClock, start_slot
<1> QED
  BY <1>1, ClockStep, TypeCorrect, PTL DEF Spec, ClockInv
------------------------------------------------------------------------------
(***************************************************************************)
(* The taxes.                                                              *)
(***************************************************************************)
\* What derive_taxes yields favours the side it chose.
LEMMA DerivedTaxes ==
  ASSUME NEW vrf \in VrfResult, NEW cheap \in Token, NEW t \in Token
  PROVE  LET config == derive_taxes(vrf, cheap)
         IN IF t = config.cheap_side
              THEN config.tax_bps[t].buy \in LowRates /\ config.tax_bps[t].sell \in HighRates
              ELSE config.tax_bps[t].buy \in HighRates /\ config.tax_bps[t].sell \in LowRates
<1> DEFINE side == NewCheapSide(vrf, cheap)
<1>1. ASSUME NEW byte \in Byte
      PROVE  LowRate(byte) \in LowRates /\ HighRate(byte) \in HighRates
  <2>1. (byte % 4) + 1 \in 1..4
    BY <1>1 DEF Byte
  <2> QED BY <2>1 DEF LowRate, HighRate, LowRates, HighRates
<1>2. LowRoll(vrf, t) \in LowRates /\ HighRoll(vrf, t) \in HighRates
  BY <1>1 DEF LowRoll, HighRoll, VrfResult
<1>3. IF t = side
        THEN /\ TokenRates(vrf, t, side).buy \in LowRates
             /\ TokenRates(vrf, t, side).sell \in HighRates
        ELSE /\ TokenRates(vrf, t, side).buy \in HighRates
             /\ TokenRates(vrf, t, side).sell \in LowRates
  BY <1>2 DEF TokenRates
<1>4. /\ derive_taxes(vrf, cheap).cheap_side = side
      /\ derive_taxes(vrf, cheap).tax_bps[t] = TokenRates(vrf, t, side)
  BY DEF derive_taxes
<1> QED BY <1>3, <1>4

\* A step sets the taxes anew or leaves them alone.
LEMMA TaxesAreSet ==
  ASSUME [Next]_vars
  PROVE  UNCHANGED taxVars \/ \E vrf \in VrfSample : SetTaxes(vrf)
<1>1. ASSUME NEW a \in RandomnessAccount, NEW vrf \in VrfSample, RevealAndConsume(a, vrf)
      PROVE  SetTaxes(vrf)
  BY <1>1 DEF RevealAndConsume, consume_randomness, FinalizeEpoch
<1>2. ASSUME NEW a \in RandomnessAccount, NEW vrf \in VrfSample, NEW with \in BOOLEAN,
             ConsumeRandomness(a, vrf, with)
      PROVE  SetTaxes(vrf)
  BY <1>2 DEF ConsumeRandomness, consume_randomness, FinalizeEpoch
<1>3. ASSUME NEW a \in RandomnessAccount, NEW vrf \in VrfSample, NEW pools \in Pools,
             RevealConsumeAndExecute(a, vrf, pools)
      PROVE  SetTaxes(vrf)
  <2>1. PICK r : Bundled(a, r, vrf, pools)
    BY <1>3, BundleIsBundled
  <2> QED BY <2>1 DEF Bundled, consume_randomness, FinalizeEpoch
<1>4. ASSUME NEW a \in RandomnessAccount,
             \/ Commit(a) \/ Reveal(a)
             \/ TriggerEpochTransition(a) \/ CommitAndTrigger(a)
             \/ RetryEpochVrf(a) \/ CommitAndRetry(a)
      PROVE  UNCHANGED taxVars
  BY <1>4 DEF Commit, Reveal, OnlyRandomness, TriggerEpochTransition, CommitAndTrigger,
              trigger_epoch_transition, RetryEpochVrf, CommitAndRetry, retry_epoch_vrf
<1>5. ASSUME NEW pools \in Pools, execute_carnage(pools) \/ execute_carnage_atomic(pools)
      PROVE  UNCHANGED taxVars
  BY <1>5 DEF execute_carnage, execute_carnage_atomic, ExecutePending, vars
<1>6. CASE Tick \/ expire_carnage \/ (\E lamports \in Deposits : Deposit(lamports))
             \/ UNCHANGED vars
  BY <1>6 DEF Tick, expire_carnage, Deposit, vars
<1> QED BY <1>1, <1>2, <1>3, <1>4, <1>5, <1>6 DEF Next

\* The genesis taxes, and those of every VRF result, favour the cheap side.
THEOREM TaxesAlwaysFollowCheapSide == Spec => []TaxesFollowCheapSide
<1>1. Init => TaxesFollowCheapSide
  <2> SUFFICES ASSUME Init PROVE TaxesFollowCheapSide
    OBVIOUS
  <2>1. /\ cheap_side = "CRIME"
        /\ tax_bps["CRIME"] = [buy |-> 300,  sell |-> 1400]
        /\ tax_bps["FRAUD"] = [buy |-> 1400, sell |-> 300]
    BY DEF Init, Token
  <2>2. 300 \in LowRates /\ 1400 \in HighRates
    BY DEF LowRates, HighRates, LOW_RATES, HIGH_RATES
  <2> QED BY <2>1, <2>2 DEF TaxesFollowCheapSide, Token
<1>2. EpochTypeOK /\ TaxesFollowCheapSide /\ [Next]_vars => TaxesFollowCheapSide'
  <2> SUFFICES ASSUME EpochTypeOK, TaxesFollowCheapSide, [Next]_vars PROVE TaxesFollowCheapSide'
    OBVIOUS
  <2>1. ASSUME NEW vrf \in VrfSample, SetTaxes(vrf)
        PROVE  TaxesFollowCheapSide'
    <3>1. vrf \in VrfResult /\ cheap_side \in Token
      BY EnvironmentAssumption DEF EpochTypeOK
    <3>2. /\ cheap_side' = derive_taxes(vrf, cheap_side).cheap_side
          /\ tax_bps' = derive_taxes(vrf, cheap_side).tax_bps
      BY <2>1 DEF SetTaxes
    <3> QED BY <3>1, <3>2, DerivedTaxes DEF TaxesFollowCheapSide
  <2>2. CASE UNCHANGED taxVars
    BY <2>2 DEF taxVars, TaxesFollowCheapSide
  <2> QED BY <2>1, <2>2, TaxesAreSet
<1> QED BY <1>1, <1>2, TypeCorrect, PTL DEF Spec

==============================================================================
