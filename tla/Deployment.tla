------------------------------- MODULE Deployment -------------------------------
(***************************************************************************)
(* The deployment script (src/scripts/deploy/initialize.ts, full mode)     *)
(* with the programs it sets up.  The script is a sequence of tasks, each  *)
(* of which looks at the chain before it acts, so that an operator may run *)
(* it again after it stopped half-way; it runs twice in any case, since    *)
(* the bonding-curve program is deployed last.                             *)
(*                                                                         *)
(* chain is what the script finds on the chain besides the curves and the  *)
(* whitelist, script is the process: what it holds in memory is gone when  *)
(* it stops.  A process may die between any two transactions.  The token   *)
(* accounts of the deployer are two: the one that was minted to, and the   *)
(* empty one a run may create; whatever else a run creates is unused.      *)
(*                                                                         *)
(* A definition named X_Something, just before X, is X with a mistake the  *)
(* properties are meant to catch; nothing uses it.                         *)
(***************************************************************************)
EXTENDS BondingCurve, TransferHook, Sequences

CONSTANTS
  TOTAL_SUPPLY,    \* tokens of each mint
  VAULT_SEED,      \* tokens of each mint the conversion vault starts with
  MINIMUM_STAKE    \* the dead stake of PROFIT

\* Bound of the model: how often a script may die.
CONSTANT MaxStops

Mint == {"CRIME", "FRAUD", "PROFIT"}

ASSUME DeploymentAssumption ==
  /\ TOTAL_SUPPLY \in [Mint -> Nat \ {0}]
  /\ VAULT_SEED \in [Mint -> Nat \ {0}]
  /\ MINIMUM_STAKE \in Nat \ {0}
  /\ MaxStops \in Nat
  /\ TARGET_TOKENS + VAULT_SEED["CRIME"] <= TOTAL_SUPPLY["CRIME"]
  /\ TARGET_TOKENS + VAULT_SEED["FRAUD"] <= TOTAL_SUPPLY["FRAUD"]
  /\ MINIMUM_STAKE + VAULT_SEED["PROFIT"] <= TOTAL_SUPPLY["PROFIT"]

VARIABLES
  chain,   \* accounts, supplies, mint authorities and balances
  script,  \* the deployment process
  stops,   \* how often a script has died
  converted  \* what users have paid into the conversion vault of each mint,
             \* less what they took out

deployVars == <<chain, script, stops>>

\* The accounts that hold tokens, as the whitelist knows them.
AdminAccount(t) == <<"admin", t>>
ConversionVault(t) == <<"conversion_vault", t>>
CarnageVault(c) == <<"carnage", c>>
CurveVault(c) == <<"curve", c>>
StakeVault == <<"stake_vault", "PROFIT">>

EachMint(step) == <<<<step, "CRIME">>, <<step, "FRAUD">>, <<step, "PROFIT">>>>
EachToken(step) == <<<<step, "CRIME">>, <<step, "FRAUD">>>>
One(step) == <<<<step, "">>>>

\* The script's tasks in order: what it does between two looks at the chain.
\* Before the conversion vault is seeded, and after.
Preparation ==
  <<<<"mint", "CRIME">>, <<"metadata", "CRIME">>,
    <<"mint", "FRAUD">>, <<"metadata", "FRAUD">>,
    <<"mint", "PROFIT">>, <<"metadata", "PROFIT">>>>
  \o One("whitelist_authority") \o EachMint("extra_account_metas")
  \o One("amm_admin")
  \o One("need_accounts") \o EachMint("mint_supply")
  \o EachMint("whitelist_admin")
  \o One("vault_config") \o EachMint("whitelist_vault")

Launching ==
  EachMint("burn_mint_authority")
  \o One("epoch_state") \o One("stake_pool") \o One("whitelist_stake_vault")
  \o One("carnage_fund") \o One("carnage_wsol") \o One("wsol_intermediary")
  \o One("carnage_sol") \o EachToken("whitelist_carnage")
  \o One("bc_deployed")
  \o One("bc_admin") \o EachToken("curve") \o EachToken("whitelist_curve")
  \o EachToken("fund") \o One("launch_gate") \o EachToken("start")
  \o One("manifest")

Plan == Preparation \o EachMint("seed_vault") \o Launching

Idle == [run     |-> "idle",   \* the process: idle, running, or done for good
         pc      |-> 1,
         created |-> {},       \* mints created in this run
         need    |-> FALSE,    \* needT22Accounts
         source  |-> [t \in Mint |-> "none"]]  \* the admin accounts it uses

InitDeployment ==
  /\ InitCurves
  /\ InitHook
  /\ chain = [exists      |-> {},    \* accounts created, by task and token
              bc_deployed |-> FALSE, \* the bonding-curve program is on chain
              authority   |-> {},    \* mints that can still mint
              supply      |-> [t \in Mint |-> 0],
              admin       |-> [t \in Mint |-> 0],
              vault       |-> [t \in Mint |-> 0],  \* put in by the scripts
              staked      |-> 0]
  /\ script = Idle
  /\ stops = 0
  /\ converted = [t \in Mint |-> 0]

At(step, t) ==
  /\ script.run = "running"
  /\ script.pc \in 1..Len(Plan) /\ Plan[script.pc] = <<step, t>>
Proceed == script' = [script EXCEPT !.pc = @ + 1]
Fail == script' = Idle /\ UNCHANGED chain
Exists(step, t) == <<step, t>> \in chain.exists
Create(step, t) == chain' = [chain EXCEPT !.exists = @ \union {<<step, t>>}]
--------------------------------------------------------------------------------
(***************************************************************************)
(* Tasks that only make sure an account exists.                            *)
(***************************************************************************)
Ensure(step, t) ==
  At(step, t) /\ Create(step, t) /\ Proceed /\ UNCHANGED <<curveVars, hookVars>>

initializeExtraAccountMetas == \E t \in Mint : Ensure("extra_account_metas", t)
initializeAmmAdmin == Ensure("amm_admin", "")
initializeVaultConfig == Ensure("vault_config", "")
initializeEpochState == Ensure("epoch_state", "")
initializeCarnageFund == Ensure("carnage_fund", "")
createCarnageWsol == Ensure("carnage_wsol", "")
initializeWsolIntermediary == Ensure("wsol_intermediary", "")
fundCarnageSol == Ensure("carnage_sol", "")

createMint ==
  \E t \in Mint :
    /\ At("mint", t)
    /\ IF Exists("mint", t) THEN Proceed /\ UNCHANGED chain
       ELSE /\ chain' = [chain EXCEPT !.exists = @ \union {<<"mint", t>>},
                                      !.authority = @ \union {t}]
            /\ script' = [script EXCEPT !.pc = @ + 1,
                                        !.created = @ \union {t}]
    /\ UNCHANGED <<curveVars, hookVars>>

\* Part of the same iteration: only the run that creates a mint describes it.
initializeMetadata ==
  \E t \in Mint :
    /\ At("metadata", t)
    /\ IF t \in script.created THEN Create("metadata", t) ELSE UNCHANGED chain
    /\ Proceed
    /\ UNCHANGED <<curveVars, hookVars>>

initializeWhitelistAuthority ==
  /\ At("whitelist_authority", "")
  /\ Proceed
  /\ IF hook_authority = "none" THEN initialize_authority("deployer")
     ELSE UNCHANGED hookVars
  /\ UNCHANGED <<curveVars, chain>>

Whitelist(address) ==
  IF address \in whitelist THEN UNCHANGED hookVars
  ELSE add_whitelist_entry("deployer", address)

\* Entries of the accounts that keep their address from run to run.
whitelistConversionVaults ==
  \E t \in Mint : /\ At("whitelist_vault", t) /\ Whitelist(ConversionVault(t))
                  /\ Proceed /\ UNCHANGED <<curveVars, chain>>
whitelistStakeVault ==
  /\ At("whitelist_stake_vault", "") /\ Whitelist(StakeVault)
  /\ Proceed /\ UNCHANGED <<curveVars, chain>>
whitelistCarnageVaults ==
  \E c \in Token : /\ At("whitelist_carnage", c) /\ Whitelist(CarnageVault(c))
                   /\ Proceed /\ UNCHANGED <<curveVars, chain>>
whitelistCurveVaults ==
  \E c \in Token : /\ At("whitelist_curve", c) /\ Whitelist(CurveVault(c))
                   /\ Proceed /\ UNCHANGED <<curveVars, chain>>
--------------------------------------------------------------------------------
(***************************************************************************)
(* The deployer's token accounts.                                          *)
(***************************************************************************)
VaultBalance(t) == chain.vault[t] + converted[t]
vaultNeedsSeeding == \E t \in Mint : VaultBalance(t) = 0
stakingNeedsInit == ~Exists("stake_pool", "")

\* With all consumers served, or nothing left to mint with, the run resolves
\* the account with the highest balance; otherwise it is about to create one.
needT22Accounts ==
  LET need == (vaultNeedsSeeding \/ stakingNeedsInit) /\ chain.authority # {}
  IN  /\ At("need_accounts", "")
      /\ script' = [script EXCEPT
            !.pc = @ + 1,
            !.need = need,
            !.source = [t \in Mint |->
                          IF ~need /\ chain.supply[t] > 0
                          THEN "funded" ELSE "none"]]
      /\ UNCHANGED <<curveVars, hookVars, chain>>

\* Where the supply was minted by an earlier run, this one creates an empty
\* account and uses that.
mintSupply ==
  \E t \in Mint :
    /\ At("mint_supply", t)
    /\ IF ~script.need THEN Proceed /\ UNCHANGED chain
       ELSE IF chain.supply[t] >= TOTAL_SUPPLY[t]
       THEN /\ script' = [script EXCEPT !.pc = @ + 1, !.source[t] = "empty"]
            /\ UNCHANGED chain
       ELSE /\ t \in chain.authority
            /\ chain' = [chain EXCEPT !.supply[t] = TOTAL_SUPPLY[t],
                                      !.admin[t] = TOTAL_SUPPLY[t]]
            /\ script' = [script EXCEPT !.pc = @ + 1, !.source[t] = "funded"]
    /\ UNCHANGED <<curveVars, hookVars>>

\* Only accounts created in this run are whitelisted; an empty one is of no
\* consequence.
whitelistAdminAccounts ==
  \E t \in Mint :
    /\ At("whitelist_admin", t)
    /\ IF script.need /\ script.source[t] = "funded"
       THEN Whitelist(AdminAccount(t)) ELSE UNCHANGED hookVars
    /\ Proceed
    /\ UNCHANGED <<curveVars, chain>>

\* A transfer of n tokens from the account this run uses succeeds.
CanSend(t, n, destination) ==
  /\ script.source[t] = "funded"
  /\ chain.admin[t] >= n
  /\ TransferAllowed(AdminAccount(t), destination, n)

seedVault_EveryRun ==
  \E t \in Mint :
    /\ At("seed_vault", t)
    /\ IF CanSend(t, VAULT_SEED[t], ConversionVault(t))
       THEN /\ chain' = [chain EXCEPT !.vault[t] = @ + VAULT_SEED[t],
                                      !.admin[t] = @ - VAULT_SEED[t]]
            /\ Proceed
       ELSE Fail
    /\ UNCHANGED <<curveVars, hookVars>>

seedVault ==
  \E t \in Mint :
    /\ At("seed_vault", t)
    /\ IF VaultBalance(t) > 0 THEN Proceed /\ UNCHANGED chain
       ELSE IF CanSend(t, VAULT_SEED[t], ConversionVault(t))
       THEN /\ chain' = [chain EXCEPT !.vault[t] = @ + VAULT_SEED[t],
                                      !.admin[t] = @ - VAULT_SEED[t]]
            /\ Proceed
       ELSE Fail
    /\ UNCHANGED <<curveVars, hookVars>>

burnMintAuthority ==
  \E t \in Mint : /\ At("burn_mint_authority", t)
                  /\ chain' = [chain EXCEPT !.authority = @ \ {t}]
                  /\ Proceed
                  /\ UNCHANGED <<curveVars, hookVars>>

\* initialize_stake_pool takes the dead stake; the stake vault is listed later.
initializeStakePool ==
  /\ At("stake_pool", "")
  /\ IF Exists("stake_pool", "") THEN Proceed /\ UNCHANGED chain
     ELSE IF CanSend("PROFIT", MINIMUM_STAKE, StakeVault)
     THEN /\ chain' = [chain EXCEPT !.exists = @ \union {<<"stake_pool", "">>},
                                    !.staked = MINIMUM_STAKE,
                                    !.admin["PROFIT"] = @ - MINIMUM_STAKE]
          /\ Proceed
     ELSE Fail
  /\ UNCHANGED <<curveVars, hookVars>>
--------------------------------------------------------------------------------
(***************************************************************************)
(* The bonding curve, once its program is deployed.                        *)
(***************************************************************************)
checkBcDeployed ==
  /\ At("bc_deployed", "")
  /\ script' = [script EXCEPT
                  !.pc = IF chain.bc_deployed THEN @ + 1 ELSE Len(Plan)]
  /\ UNCHANGED <<curveVars, hookVars, chain>>

initializeBcAdmin ==
  /\ At("bc_admin", "")
  /\ Proceed
  /\ IF bc_admin = "none" THEN initialize_bc_admin ELSE UNCHANGED curveVars
  /\ UNCHANGED <<hookVars, chain>>

initializeCurve ==
  \E c \in Token :
    /\ At("curve", c)
    /\ Proceed
    /\ IF curve[c].status = "None" THEN initialize_curve("deployer", c)
       ELSE UNCHANGED curveVars
    /\ UNCHANGED <<hookVars, chain>>

\* A vault with tokens counts as funded; with an empty one the script wants the
\* whole allocation, and exits if the deployer does not have it.
fundCurve ==
  \E c \in Token :
    /\ At("fund", c)
    /\ IF token_vault[c] > 0
       THEN Proceed /\ UNCHANGED <<curveVars, chain>>
       ELSE IF CanSend(c, TARGET_TOKENS, CurveVault(c))
               /\ curve[c].status = "Initialized"
       THEN /\ fund_curve("deployer", c)
            /\ chain' = [chain EXCEPT !.admin[c] = @ - TARGET_TOKENS]
            /\ Proceed
       ELSE Fail /\ UNCHANGED curveVars
    /\ UNCHANGED hookVars

launchGate ==
  /\ At("launch_gate", "")
  /\ \/ Proceed /\ UNCHANGED chain
     \/ Fail
  /\ UNCHANGED <<curveVars, hookVars>>

startCurve ==
  \E c \in Token :
    /\ At("start", c)
    /\ IF curve[c].status # "Initialized"
       THEN Proceed /\ UNCHANGED curveVars
       ELSE IF token_vault[c] >= TARGET_TOKENS
       THEN start_curve("deployer", c) /\ Proceed
       ELSE script' = Idle /\ UNCHANGED curveVars
    /\ UNCHANGED <<hookVars, chain>>

\* The end of a run; the operator comes back if the curves were not there yet.
writeManifest ==
  /\ At("manifest", "")
  /\ Create("manifest", "")
  /\ script' = [Idle EXCEPT !.run =
                   IF curve["FRAUD"].status \in {"None", "Initialized"}
                   THEN "idle" ELSE "done"]
  /\ UNCHANGED <<curveVars, hookVars>>
--------------------------------------------------------------------------------
StartScript ==
  /\ script.run = "idle"
  /\ script' = [Idle EXCEPT !.run = "running"]
  /\ UNCHANGED <<curveVars, hookVars, chain>>

ScriptStep ==
  \/ createMint \/ initializeMetadata \/ initializeWhitelistAuthority
  \/ initializeExtraAccountMetas \/ initializeAmmAdmin
  \/ needT22Accounts \/ mintSupply \/ whitelistAdminAccounts
  \/ initializeVaultConfig \/ whitelistConversionVaults
  \/ seedVault \/ burnMintAuthority \/ initializeEpochState
  \/ initializeStakePool \/ whitelistStakeVault
  \/ initializeCarnageFund \/ createCarnageWsol \/ initializeWsolIntermediary
  \/ fundCarnageSol \/ whitelistCarnageVaults
  \/ checkBcDeployed \/ initializeBcAdmin \/ initializeCurve
  \/ whitelistCurveVaults \/ fundCurve \/ launchGate \/ startCurve
  \/ writeManifest

\* The process dies, or an RPC call throws.
ScriptDies ==
  /\ script.run = "running"
  /\ stops < MaxStops
  /\ stops' = stops + 1
  /\ script' = Idle
  /\ UNCHANGED <<curveVars, hookVars, chain>>

DeployBondingCurve ==
  /\ ~chain.bc_deployed
  /\ Exists("manifest", "")
  /\ chain' = [chain EXCEPT !.bc_deployed = TRUE]
  /\ UNCHANGED <<curveVars, hookVars, script, stops>>
================================================================================
