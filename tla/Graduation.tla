------------------------------- MODULE Graduation -------------------------------
(***************************************************************************)
(* The whole launch: the deployment script sets the protocol up, users     *)
(* trade on the curves, and the graduation script                          *)
(* (src/scripts/graduation/graduate.ts) moves what two filled curves       *)
(* raised into the AMM pools.  The graduation script keeps a checkpoint    *)
(* file of completed steps and withdrawn amounts; the process may die      *)
(* between any transaction and the write that records it.                  *)
(*                                                                         *)
(* Meanwhile the conversion vault, which the deployment has seeded and     *)
(* whitelisted, converts for anybody: CRIME to PROFIT to FRAUD.            *)
(*                                                                         *)
(* file is graduation-state.json, grad the process, pool the two AMM pools *)
(* (src/programs/amm/src/instructions/initialize_pool.rs).  The deployer's *)
(* wallet has SOL enough for fees and buffers.  Steps whose only effect is *)
(* to refuse to start (verifyFilled) are tasks like the others.            *)
(*                                                                         *)
(* A definition named X_Something, just before X, is X with a mistake the  *)
(* properties are meant to catch; nothing uses it.                         *)
(***************************************************************************)
EXTENDS Deployment, ConversionMath

CONSTANTS
  GRADUATION_POOL_SEED_TOKEN,  \* tokens each pool starts with
  MIN_POOL_SEED_SOL,           \* least SOL the script seeds a pool with
  TX_FEE,                      \* what a transaction costs its signer
  OverrideSol,                 \* an operator's SOL_POOL_SEED_SOL_OVERRIDE
  Conversions                  \* amounts users convert

\* Bound of the model: the number of conversions.
CONSTANT MaxConversions

ASSUME GraduationAssumption ==
  /\ GRADUATION_POOL_SEED_TOKEN \in Nat \ {0}
  /\ MIN_POOL_SEED_SOL \in Nat \ {0}
  /\ TX_FEE \in Nat
  /\ OverrideSol \in Nat \ {0}
  /\ Conversions \subseteq Nat
  /\ MaxConversions \in Nat

VARIABLES
  file,  \* completed steps and withdrawn amounts; survives the process
  grad,  \* the graduation process
  pool,  \* SOL and tokens of each pool, zero before it is initialised
  overridden, \* auxiliary: pools seeded with the override
  profit,     \* PROFIT in each user's account
  emptied,    \* auxiliary: mints of which conversions have taken all there was
  conversions \* how many conversions there have been

gradVars == <<file, grad, pool, overridden>>
convertVars == <<converted, profit, emptied, conversions>>
launchVars == <<curveVars, hookVars, deployVars, gradVars, convertVars>>

Steps == <<<<"verify_curves_filled", "">>, <<"prepare_transition", "">>,
           <<"withdraw_sol", "CRIME">>, <<"withdraw_sol", "FRAUD">>,
           <<"close_token_vault", "CRIME">>, <<"close_token_vault", "FRAUD">>,
           <<"create_sol_pool", "CRIME">>, <<"create_sol_pool", "FRAUD">>,
           <<"whitelist_pool_vaults", "">>, <<"seed_conversion_vault", "">>,
           <<"distribute_tax_escrow", "CRIME">>,
           <<"distribute_tax_escrow", "FRAUD">>,
           <<"burn_whitelist_authority", "">>>>

PoolVault(side, c) == <<"pool", side, c>>
PoolVaults == {PoolVault(side, c) : side \in {"A", "B"}, c \in Token}

\* No amount in the file (the field is undefined).
Unknown == 0

NotRunning == [on |-> FALSE, override |-> FALSE, step |-> 1, phase |-> "exec",
               got |-> Unknown, wsol |-> FALSE, seed |-> 1]

InitLaunch ==
  /\ InitDeployment
  /\ file = [completed |-> {}, withdrawn |-> [c \in Token |-> Unknown]]
  /\ grad = NotRunning
  /\ pool = [c \in Token |-> [sol |-> 0, tokens |-> 0]]
  /\ overridden = {}
  /\ profit = [u \in User |-> 0]
  /\ emptied = {}
  /\ conversions = 0

Now(name, c, phase) ==
  /\ grad.on
  /\ grad.step <= Len(Steps) /\ Steps[grad.step] = <<name, c>>
  /\ grad.step \notin file.completed
  /\ grad.phase = phase

\* The step's work is done; its completion is yet to be saved.
Worked == grad' = [grad EXCEPT !.phase = "mark"]
Abort == grad' = NotRunning

SkipCompleted ==
  /\ grad.on /\ grad.step \in file.completed
  /\ grad' = [grad EXCEPT !.step = @ + 1]
  /\ UNCHANGED <<curveVars, hookVars, chain, file, pool, overridden>>

MarkCompleted ==
  /\ grad.on /\ grad.phase = "mark"
  /\ file' = [file EXCEPT !.completed = @ \union {grad.step}]
  /\ grad' = [NotRunning EXCEPT !.on = TRUE, !.override = grad.override,
                                !.step = grad.step + 1]
  /\ UNCHANGED <<curveVars, hookVars, chain, pool, overridden>>
--------------------------------------------------------------------------------
CurvesFull == \A c \in Token : curve[c].status \in {"Filled", "Graduated"}

verifyFilled ==
  /\ Now("verify_curves_filled", "", "exec")
  /\ IF CurvesFull THEN Worked ELSE Abort
  /\ UNCHANGED <<curveVars, hookVars, chain, file, pool, overridden>>

prepareTransition ==
  /\ Now("prepare_transition", "", "exec")
  /\ IF curve["CRIME"].status = "Graduated" THEN Worked /\ UNCHANGED curveVars
     ELSE prepare_transition("deployer") /\ Worked
  /\ UNCHANGED <<hookVars, chain, file, pool, overridden>>

\* The transaction, with the wallet's balance read before and after it.
withdrawSol ==
  \E c \in Token :
    /\ Now("withdraw_sol", c, "exec")
    /\ IF sol_vault[c] <= RENT THEN Worked /\ UNCHANGED curveVars
       ELSE /\ withdraw_graduated_sol("deployer", c)
            /\ grad' = [grad EXCEPT
                          !.phase = "save",
                          !.got = saturating_sub(sol_vault[c] - RENT, TX_FEE)]
    /\ UNCHANGED <<hookVars, chain, file, pool, overridden>>

saveWithdrawn_InOneField ==
  \E c \in Token :
    /\ Now("withdraw_sol", c, "save")
    /\ file' = [file EXCEPT !.withdrawn = [d \in Token |-> grad.got]]
    /\ Worked
    /\ UNCHANGED <<curveVars, hookVars, chain, pool, overridden>>

saveWithdrawn ==
  \E c \in Token :
    /\ Now("withdraw_sol", c, "save")
    /\ file' = [file EXCEPT !.withdrawn[c] = grad.got]
    /\ Worked
    /\ UNCHANGED <<curveVars, hookVars, chain, pool, overridden>>

closeTokenVault ==
  \E c \in Token :
    /\ Now("close_token_vault", c, "exec")
    /\ IF c \in vault_closed \/ token_vault[c] > 0 THEN UNCHANGED curveVars
       ELSE close_token_vault("deployer", c)
    /\ Worked
    /\ UNCHANGED <<hookVars, chain, file, pool, overridden>>

\* The SOL a pool is seeded with, or Unknown where the script throws.
resolvePoolSeedSol(c) ==
  IF grad.override THEN OverrideSol
  ELSE IF file.withdrawn[c] < MIN_POOL_SEED_SOL THEN Unknown
  ELSE file.withdrawn[c]

CanInitializePool(c) ==
  /\ chain.admin[c] >= GRADUATION_POOL_SEED_TOKEN
  /\ TransferAllowed(AdminAccount(c), PoolVault("B", c),
                     GRADUATION_POOL_SEED_TOKEN)

\* Two transactions: wrapping the SOL, then initialize_pool.
createAmmPool ==
  \E c \in Token :
    /\ Now("create_sol_pool", c, "exec")
    /\ IF pool[c].tokens > 0
       THEN Worked /\ UNCHANGED <<chain, pool, overridden>>
       ELSE IF resolvePoolSeedSol(c) = Unknown \/ ~CanInitializePool(c)
       THEN Abort /\ UNCHANGED <<chain, pool, overridden>>
       ELSE IF ~grad.wsol
       THEN grad' = [grad EXCEPT !.wsol = TRUE]
            /\ UNCHANGED <<chain, pool, overridden>>
       ELSE /\ pool' = [pool EXCEPT ![c] =
                 [sol |-> resolvePoolSeedSol(c),
                  tokens |-> GRADUATION_POOL_SEED_TOKEN]]
            /\ chain' = [chain EXCEPT
                 !.admin[c] = @ - GRADUATION_POOL_SEED_TOKEN]
            /\ overridden' = IF grad.override THEN overridden \union {c}
                             ELSE overridden
            /\ Worked
    /\ UNCHANGED <<curveVars, hookVars, file>>

\* One entry after another, each its own transaction.
whitelistPoolVaults ==
  /\ Now("whitelist_pool_vaults", "", "exec")
  /\ IF hook_authority = "burned" \/ PoolVaults \subseteq whitelist
     THEN Worked /\ UNCHANGED hookVars
     ELSE /\ add_whitelist_entry("deployer",
                                 CHOOSE v \in PoolVaults \ whitelist : TRUE)
          /\ UNCHANGED grad
  /\ UNCHANGED <<curveVars, chain, file, pool, overridden>>

\* The deployment has seeded the vaults already; one that conversions have emptied
\* since is seeded again, with the same amount but for PROFIT, of which the script
\* asks for the dead stake too.
GraduationSeed(t) ==
  VAULT_SEED[t] + (IF t = "PROFIT" THEN MINIMUM_STAKE ELSE 0)

SeedingPlan == <<"CRIME", "FRAUD", "PROFIT">>

\* One vault after another.
seedConversionVault ==
  /\ Now("seed_conversion_vault", "", "exec")
  /\ IF grad.seed > Len(SeedingPlan)
     THEN Worked /\ UNCHANGED chain
     ELSE LET t == SeedingPlan[grad.seed]
          IN  IF VaultBalance(t) > 0
              THEN grad' = [grad EXCEPT !.seed = @ + 1] /\ UNCHANGED chain
              ELSE IF chain.admin[t] >= GraduationSeed(t)
              THEN /\ chain' = [chain EXCEPT !.vault[t] = @ + GraduationSeed(t),
                                             !.admin[t] = @ - GraduationSeed(t)]
                   /\ grad' = [grad EXCEPT !.seed = @ + 1]
              ELSE Abort /\ UNCHANGED chain
  /\ UNCHANGED <<curveVars, hookVars, file, pool, overridden>>

\* Looks first; anyone may distribute between the look and the transaction,
\* which then fails and ends the run.
distributeTaxEscrow ==
  \E c \in Token :
    \/ /\ Now("distribute_tax_escrow", c, "exec")
       /\ IF tax_escrow[c] <= RENT THEN Worked
          ELSE grad' = [grad EXCEPT !.phase = "send"]
       /\ UNCHANGED <<curveVars, hookVars, chain, file, pool, overridden>>
    \/ /\ Now("distribute_tax_escrow", c, "send")
       /\ IF Spare(tax_escrow[c]) > 0
          THEN distribute_tax_escrow(c) /\ Worked
          ELSE Abort /\ UNCHANGED curveVars
       /\ UNCHANGED <<hookVars, chain, file, pool, overridden>>

\* Disabled: recorded as completed without a transaction.
burnWhitelistAuthority ==
  /\ Now("burn_whitelist_authority", "", "exec")
  /\ Worked
  /\ UNCHANGED <<curveVars, hookVars, chain, file, pool, overridden>>

GraduationStep ==
  \/ SkipCompleted \/ MarkCompleted
  \/ verifyFilled \/ prepareTransition \/ withdrawSol \/ saveWithdrawn
  \/ closeTokenVault \/ createAmmPool \/ whitelistPoolVaults
  \/ seedConversionVault \/ distributeTaxEscrow \/ burnWhitelistAuthority
--------------------------------------------------------------------------------
Graduated == Len(Steps) \in file.completed

\* The withdrawal is on record as completed, but not what it brought.
AmountLost ==
  \E c \in Token : /\ pool[c].tokens = 0
                   /\ file.withdrawn[c] = Unknown
                   /\ \E i \in file.completed : Steps[i] = <<"withdraw_sol", c>>

\* The operator runs this script, and no longer the other one, when both curves
\* are full, and reaches for the override only when the script has told him to.
StartGraduation ==
  /\ ~grad.on /\ ~Graduated
  /\ script.run # "running"
  /\ CurvesFull
  /\ grad' = [NotRunning EXCEPT !.on = TRUE, !.override = AmountLost]
  /\ UNCHANGED <<curveVars, hookVars, chain, file, pool, overridden>>

GraduationDies ==
  /\ grad.on /\ grad.step <= Len(Steps)
  /\ stops < MaxStops
  /\ stops' = stops + 1
  /\ grad' = NotRunning
  /\ UNCHANGED <<curveVars, hookVars, chain, script, file, pool, overridden>>

\* The last stage of the launch: transfer-authority.ts hands the whitelist and the
\* curves to the multisig; each of the two may fail without the other.
transferAuthorities ==
  /\ Graduated
  /\ \/ transfer_authority("deployer", "multisig") /\ UNCHANGED curveVars
     \/ transfer_bc_admin("deployer", "multisig") /\ UNCHANGED hookVars

\* Trades move tokens in and out of the curve's vault.  Slots are counted while
\* a curve is active, since only its deadline reads the clock.
Elapse == Tick /\ \E c \in Token : curve[c].status = "Active"

Refund ==
  \E c \in Token : \/ mark_failed(c)
                  \/ consolidate_for_refund(c)
                  \/ \E u \in User : claim_refund(c, u)

\* Anybody converts, at any time: the vault asks neither the clock nor the curves.
Holding(u, t) == IF t = "PROFIT" THEN profit[u] ELSE held[t][u]

Convert(u, input, output, amount_in) ==
  LET amount_out == compute_output(input, output, amount_in)
  IN  /\ conversions < MaxConversions
      /\ Exists("vault_config", "")
      /\ amount_out > 0
      /\ Holding(u, input) >= amount_in
      /\ VaultBalance(output) >= amount_out
      /\ TransferAllowed(u, ConversionVault(input), amount_in)
      /\ TransferAllowed(ConversionVault(output), u, amount_out)
      /\ converted' = [converted EXCEPT ![input] = @ + amount_in,
                                        ![output] = @ - amount_out]
      /\ IF input = "PROFIT"
         THEN /\ held' = [held EXCEPT ![output][u] = @ + amount_out]
              /\ profit' = [profit EXCEPT ![u] = @ - amount_in]
         ELSE /\ held' = [held EXCEPT ![input][u] = @ - amount_in]
              /\ profit' = [profit EXCEPT ![u] = @ + amount_out]
      /\ emptied' = IF VaultBalance(output) = amount_out
                    THEN emptied \union {output} ELSE emptied
      /\ conversions' = conversions + 1
      /\ UNCHANGED <<slot, bc_admin, curve, balances, payments, tokens, sales>>

UserConverts ==
  \E u \in User, n \in Conversions, input, output \in Mint :
    Convert(u, input, output, n)

\* What users and passers-by do on the curves.  Left out: trades in the pools, which
\* open only when no curve can be traded or refunded any more.
UserStep ==
  \/ Elapse
  \/ \E c \in Token, u \in User :
       /\ \/ \E sol \in Purchases : purchase(c, u, sol, 0)
          \/ \E n \in Sales : sell(c, u, n, 0)
       /\ TransferAllowed(CurveVault(c), u, 1)
  \/ Refund
  \/ \E c \in Token : distribute_tax_escrow(c)

LaunchNext ==
  \/ UserConverts /\ UNCHANGED <<hookVars, deployVars, gradVars>>
  \/ /\ \/ StartScript /\ ~CurvesFull /\ UNCHANGED <<stops, gradVars>>
        \/ ScriptStep /\ UNCHANGED <<stops, gradVars>>
        \/ (ScriptDies \/ DeployBondingCurve) /\ UNCHANGED gradVars
        \/ UserStep /\ UNCHANGED <<hookVars, deployVars, gradVars>>
        \/ (StartGraduation \/ GraduationStep) /\ UNCHANGED <<script, stops>>
        \/ GraduationDies
        \/ transferAuthorities /\ UNCHANGED <<deployVars, gradVars>>
     /\ UNCHANGED convertVars

LaunchSpec == InitLaunch /\ [][LaunchNext]_launchVars

\* Time passes while a curve is open; somebody fails a curve that missed its
\* deadline and opens the refunds, and holders claim what is theirs; the
\* operator graduates full curves, and runs a script again when it has stopped.
LaunchFairness ==
  /\ WF_launchVars(Elapse /\ UNCHANGED <<hookVars, deployVars, gradVars, convertVars>>)
  /\ WF_launchVars(Refund /\ UNCHANGED <<hookVars, deployVars, gradVars, convertVars>>)
  /\ WF_launchVars(ScriptStep /\ UNCHANGED <<stops, gradVars, convertVars>>)
  /\ WF_launchVars((StartGraduation \/ GraduationStep)
                     /\ UNCHANGED <<script, stops, convertVars>>)

FairLaunchSpec == LaunchSpec /\ LaunchFairness
--------------------------------------------------------------------------------
\* However often the scripts die and are run again, and whatever users convert
\* meanwhile, the scripts put the whole supply of each token where it belongs:
\* minted once, and each of the conversion vault, the stake vault, the curve and
\* the pool given its share at most once and in full.  Only a vault that
\* conversions have emptied is seeded again (mintSupply, seedVault,
\* initializeStakePool, fundCurve, createAmmPool, seedConversionVault, convert).
TokensArePlaced ==
  \A t \in Mint :
    LET onCurve == IF t \in Token THEN funded[t] ELSE 0
        inPool == IF t \in Token THEN pool[t].tokens ELSE 0
        inStake == IF t = "PROFIT" THEN chain.staked ELSE 0
    IN  /\ chain.supply[t] \in {0, TOTAL_SUPPLY[t]}
        /\ t \notin emptied => chain.vault[t] \in {0, VAULT_SEED[t]}
        /\ onCurve \in {0, TARGET_TOKENS}
        /\ inPool \in {0, GRADUATION_POOL_SEED_TOKEN}
        /\ inStake \in {0, MINIMUM_STAKE}
        /\ chain.supply[t]
             = chain.admin[t] + chain.vault[t] + onCurve + inPool + inStake

\* Unless the operator overrode it, a pool opens with what its own curve raised,
\* less the fee of one transaction, in whatever runs of the script the
\* withdrawal and the pool happen (withdrawSol, saveWithdrawn, createAmmPool).
PoolsOpenAtCurveValue ==
  \A c \in Token :
    pool[c].tokens > 0 /\ c \notin overridden =>
      pool[c].sol = withdrawn[c] - TX_FEE

\* The operator lacks tokens for a pool or an empty vault, conversions having made
\* the scripts seed a vault again.
OutOfTokens ==
  /\ emptied # {}
  /\ \/ \E c \in Token : /\ pool[c].tokens = 0
                          /\ chain.admin[c] < GRADUATION_POOL_SEED_TOKEN
     \/ \E t \in Mint : VaultBalance(t) = 0 /\ chain.admin[t] < GraduationSeed(t)

\* A launch comes to an end: once both curves have started, either both pools
\* open and the graduation is recorded, or a curve fails and every holder of
\* both tokens is refunded.  Conversions may prevent either: a holder of converted
\* tokens may be refused (RefundsReachAll), and the operator may run out of tokens.
Started == \A c \in Token :
             /\ curve[c].status \notin {"None", "Initialized"}
             /\ curve[c].deadline_slot + FAILURE_GRACE_SLOTS < MaxSlot
Resolved ==
  \/ Graduated /\ \A c \in Token : pool[c].tokens > 0
  \/ /\ \E c \in Token : curve[c].status = "Failed"
     /\ \A c \in Token, u \in User :
          \/ held[c][u] = 0
          \/ conversions > 0 /\ held[c][u] > curve[c].tokens_sold
  \/ CurvesFull /\ OutOfTokens
LaunchResolves == Started ~> Resolved
================================================================================
