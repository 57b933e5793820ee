--------------------------- MODULE Graduation_proofs ---------------------------
(***************************************************************************)
(* The launch implements the bonding-curve program: whatever the scripts   *)
(* do, crash and repeat, the curves only make the program's own steps, so  *)
(* that every theorem about the program holds of the launch.  And whatever *)
(* is traded, converted and resumed, tokens go where the plan says, and    *)
(* the pools open at the value the curves raised.                          *)
(***************************************************************************)
EXTENDS Graduation, BondingCurve_proofs, SequenceTheorems

\* A task of the deployment script.
LEMMA ScriptRunsCurves == ScriptStep => [CurveNext]_curveVars
<1> SUFFICES ASSUME ScriptStep PROVE [CurveNext]_curveVars
  OBVIOUS
<1>1. CASE createMint \/ initializeMetadata \/ initializeWhitelistAuthority
  BY <1>1 DEF createMint, initializeMetadata, initializeWhitelistAuthority
<1>2. CASE \/ initializeExtraAccountMetas \/ initializeAmmAdmin
           \/ initializeVaultConfig \/ initializeEpochState
           \/ initializeCarnageFund \/ createCarnageWsol
           \/ initializeWsolIntermediary \/ fundCarnageSol
  BY <1>2 DEF initializeExtraAccountMetas, initializeAmmAdmin,
     initializeVaultConfig, initializeEpochState, initializeCarnageFund,
     createCarnageWsol, initializeWsolIntermediary, fundCarnageSol, Ensure
<1>3. CASE needT22Accounts \/ mintSupply \/ whitelistAdminAccounts
  BY <1>3 DEF needT22Accounts, mintSupply, whitelistAdminAccounts
<1>4. CASE \/ whitelistConversionVaults \/ whitelistStakeVault
           \/ whitelistCarnageVaults \/ whitelistCurveVaults
  BY <1>4 DEF whitelistConversionVaults, whitelistStakeVault,
     whitelistCarnageVaults, whitelistCurveVaults
<1>5. CASE seedVault \/ burnMintAuthority \/ initializeStakePool
  BY <1>5 DEF seedVault, burnMintAuthority, initializeStakePool
<1>6. CASE checkBcDeployed \/ launchGate \/ writeManifest
  BY <1>6 DEF checkBcDeployed, launchGate, writeManifest
<1>7. CASE initializeBcAdmin
  BY <1>7 DEF initializeBcAdmin, CurveNext
<1>8. CASE initializeCurve
  BY <1>8 DEF initializeCurve, CurveNext, AdminStep
<1>9. CASE fundCurve
  BY <1>9 DEF fundCurve, CurveNext, AdminStep
<1>10. CASE startCurve
  BY <1>10 DEF startCurve, CurveNext, AdminStep
<1> QED BY <1>1, <1>2, <1>3, <1>4, <1>5, <1>6, <1>7, <1>8, <1>9, <1>10
        DEF ScriptStep

\* A step of the graduation script.
LEMMA GraduationRunsCurves == GraduationStep => [CurveNext]_curveVars
<1> SUFFICES ASSUME GraduationStep PROVE [CurveNext]_curveVars
  OBVIOUS
<1>1. CASE SkipCompleted \/ MarkCompleted \/ verifyFilled \/ saveWithdrawn
  BY <1>1 DEF SkipCompleted, MarkCompleted, verifyFilled, saveWithdrawn
<1>2. CASE \/ createAmmPool \/ whitelistPoolVaults \/ seedConversionVault
           \/ burnWhitelistAuthority
  BY <1>2 DEF createAmmPool, whitelistPoolVaults, seedConversionVault,
     burnWhitelistAuthority
<1>3. CASE prepareTransition
  BY <1>3 DEF prepareTransition, CurveNext, AdminStep
<1>4. CASE withdrawSol
  BY <1>4 DEF withdrawSol, CurveNext, AdminStep
<1>5. CASE closeTokenVault
  BY <1>5 DEF closeTokenVault, CurveNext, AdminStep
<1>6. CASE distributeTaxEscrow
  BY <1>6 DEF distributeTaxEscrow, CurveNext, Permissionless
<1> QED BY <1>1, <1>2, <1>3, <1>4, <1>5, <1>6 DEF GraduationStep

\* What the vault pays is a natural number.
LEMMA OutputNat ==
  ASSUME NEW input, NEW output, NEW n \in Nat
  PROVE  compute_output(input, output, n) \in Nat
<1>1. n \div CONVERSION_RATE \in Nat /\ n * CONVERSION_RATE \in Nat
  BY RateAssumption, DivNat, ProductNat
<1> QED BY <1>1 DEF compute_output

\* A conversion changes what one holder has of CRIME or of FRAUD.
LEMMA ConversionRunsCurves ==
  ASSUME CurveTypeOK, UserConverts
  PROVE  CurveNext
<1>1. PICK u \in User, n \in Conversions, input \in Mint, output \in Mint :
        Convert(u, input, output, n)
  BY DEF UserConverts
<1>2. n \in Nat
  BY GraduationAssumption
<1>3. compute_output(input, output, n) \in Nat /\ compute_output(input, output, n) > 0
  BY <1>1, <1>2, OutputNat DEF Convert
<1>4. \A c \in Token : held[c] \in [User -> Nat]
  BY DEF CurveTypeOK
<1>5. CASE input = "PROFIT"
  <2>1. output \in Token
    BY <1>3, <1>5 DEF compute_output, Faction, Token
  <2>2. held[output][u] + compute_output(input, output, n) \in Nat
    BY <1>3, <1>4, <2>1
  <2>3. held' = [held EXCEPT ![output][u] =
                   held[output][u] + compute_output(input, output, n)]
    BY <1>1, <1>5 DEF Convert
  <2>4. HoldingsChange
    BY <1>1, <2>1, <2>2, <2>3 DEF Convert, HoldingsChange
  <2> QED BY <2>4 DEF CurveNext
<1>6. CASE input # "PROFIT"
  <2>1. input \in Token
    BY <1>6 DEF Mint, Token
  <2>2. held[input][u] - n \in Nat
    <3>1. held[input][u] >= n
      BY <1>1, <1>6 DEF Convert, Holding
    <3>2. held[input][u] \in Nat
      BY <1>4, <2>1
    <3> QED BY <1>2, <3>1, <3>2
  <2>3. held' = [held EXCEPT ![input][u] = held[input][u] - n]
    BY <1>1, <1>6 DEF Convert
  <2>4. HoldingsChange
    BY <1>1, <2>1, <2>2, <2>3 DEF Convert, HoldingsChange
  <2> QED BY <2>4 DEF CurveNext
<1> QED BY <1>5, <1>6

\* A step of the launch is a step of the program, or leaves the curves alone.
LEMMA LaunchRunsCurves ==
  CurveTypeOK /\ [LaunchNext]_launchVars => [CurveNext]_curveVars
<1> SUFFICES ASSUME CurveTypeOK, [LaunchNext]_launchVars PROVE [CurveNext]_curveVars
  OBVIOUS
<1>1. CASE UNCHANGED launchVars
  BY <1>1 DEF launchVars
<1>2. CASE StartScript \/ ScriptDies \/ DeployBondingCurve
  BY <1>2 DEF StartScript, ScriptDies, DeployBondingCurve
<1>3. CASE StartGraduation \/ GraduationDies
  BY <1>3 DEF StartGraduation, GraduationDies
<1>4. CASE ScriptStep \/ GraduationStep
  BY <1>4, ScriptRunsCurves, GraduationRunsCurves
<1>5. CASE UserStep
  BY <1>5 DEF UserStep, Elapse, Refund, CurveNext, Permissionless
<1>6. CASE transferAuthorities
  BY <1>6 DEF transferAuthorities, CurveNext, AdminStep
<1>7. CASE UserConverts
  BY <1>7, ConversionRunsCurves
<1> QED BY <1>1, <1>2, <1>3, <1>4, <1>5, <1>6, <1>7 DEF LaunchNext

\* The scripts, the operator and the users together implement the program: a
\* conversion is to the curves a change of somebody's holdings.
THEOREM LaunchImplementsCurves == LaunchSpec => CurveSpec
<1>1. InitLaunch => InitCurves
  BY DEF InitLaunch, InitDeployment
<1>2. InitLaunch => CurveInv
  BY <1>1, CurveInvInit
<1>3. CurveInv /\ [LaunchNext]_launchVars => CurveInv' /\ [CurveNext]_curveVars
  BY LaunchRunsCurves, CurveInvStep DEF CurveInv
<1> QED BY <1>1, <1>2, <1>3, PTL DEF LaunchSpec, CurveSpec

\* So no order of runs, crashes, trades and conversions makes a launch both
\* graduate and refund, or the vaults and their books disagree.
THEOREM LaunchesAreSafe ==
  LaunchSpec => [](CurveTypeOK /\ GraduationExcludesRefund /\ VaultMatchesTrades)
BY LaunchImplementsCurves, CurveTypeCorrect, GraduationNeverRefunds,
   VaultAlwaysMatchesTrades, PTL
--------------------------------------------------------------------------------
(***************************************************************************)
(* The order of the deployment's tasks, from the three parts of its plan.  *)
(***************************************************************************)
Tasks(names) == names \X {"", "CRIME", "FRAUD", "PROFIT"}

LEMMA SequenceOfOne ==
  ASSUME NEW T, NEW a \in T
  PROVE  <<a>> \in Seq(T)
  OBVIOUS

LEMMA SequenceOfTwo ==
  ASSUME NEW T, NEW a \in T, NEW b \in T
  PROVE  <<a, b>> \in Seq(T)
  OBVIOUS

LEMMA SequenceOfThree ==
  ASSUME NEW T, NEW a \in T, NEW b \in T, NEW c \in T
  PROVE  <<a, b, c>> \in Seq(T)
  OBVIOUS

LEMMA SequenceOfSix ==
  ASSUME NEW T, NEW a \in T, NEW b \in T, NEW c \in T,
         NEW d \in T, NEW e \in T, NEW f \in T
  PROVE  <<a, b, c, d, e, f>> \in Seq(T)
  OBVIOUS

LEMMA TasksAre ==
  ASSUME NEW names, NEW step \in names
  PROVE  /\ One(step) \in Seq(Tasks(names))
         /\ EachMint(step) \in Seq(Tasks(names))
         /\ EachToken(step) \in Seq(Tasks(names))
<1>1. /\ <<step, "">> \in Tasks(names) /\ <<step, "CRIME">> \in Tasks(names)
      /\ <<step, "FRAUD">> \in Tasks(names) /\ <<step, "PROFIT">> \in Tasks(names)
  BY DEF Tasks
<1>2. One(step) \in Seq(Tasks(names))
  BY <1>1, SequenceOfOne, Zenon DEF One
<1>3. EachMint(step) \in Seq(Tasks(names))
  BY <1>1, SequenceOfThree, Zenon DEF EachMint
<1>4. EachToken(step) \in Seq(Tasks(names))
  BY <1>1, SequenceOfTwo, Zenon DEF EachToken
<1> QED BY <1>2, <1>3, <1>4

\* A task has one of the names.
LEMMA TaskNamed ==
  ASSUME NEW names, NEW task \in Tasks(names), NEW step, NEW t, task = <<step, t>>
  PROVE  step \in names
  BY DEF Tasks

LEMMA MoreTasks ==
  ASSUME NEW some, NEW all, some \subseteq all, NEW s \in Seq(Tasks(some))
  PROVE  s \in Seq(Tasks(all))
<1>1. Tasks(some) \subseteq Tasks(all)
  BY DEF Tasks
<1> QED BY <1>1

LEMMA ConcatTasks ==
  ASSUME NEW T, NEW s \in Seq(T), NEW t \in Seq(T)
  PROVE  /\ s \o t \in Seq(T)
         /\ Len(s) \in Nat /\ Len(t) \in Nat
         /\ Len(s \o t) = Len(s) + Len(t)
         /\ \A i \in 1..Len(s) : (s \o t)[i] = s[i]
         /\ \A i \in 1..Len(t) : (s \o t)[Len(s) + i] = t[i]
  OBVIOUS

PreparationNames ==
  {"mint", "metadata", "whitelist_authority", "extra_account_metas", "amm_admin",
   "need_accounts", "mint_supply", "whitelist_admin", "vault_config",
   "whitelist_vault"}
LaunchingNames ==
  {"burn_mint_authority", "epoch_state", "stake_pool", "whitelist_stake_vault",
   "carnage_fund", "carnage_wsol", "wsol_intermediary", "carnage_sol",
   "whitelist_carnage", "bc_deployed", "bc_admin", "curve", "whitelist_curve",
   "fund", "launch_gate", "start", "manifest"}

LEMMA PreparationNamed == Preparation \in Seq(Tasks(PreparationNames))
<1>1. <<<<"mint", "CRIME">>, <<"metadata", "CRIME">>,
        <<"mint", "FRAUD">>, <<"metadata", "FRAUD">>,
        <<"mint", "PROFIT">>, <<"metadata", "PROFIT">>>>
        \in Seq(Tasks(PreparationNames))
  <2>1. /\ <<"mint", "CRIME">> \in Tasks(PreparationNames)
        /\ <<"metadata", "CRIME">> \in Tasks(PreparationNames)
        /\ <<"mint", "FRAUD">> \in Tasks(PreparationNames)
        /\ <<"metadata", "FRAUD">> \in Tasks(PreparationNames)
        /\ <<"mint", "PROFIT">> \in Tasks(PreparationNames)
        /\ <<"metadata", "PROFIT">> \in Tasks(PreparationNames)
    BY DEF Tasks, PreparationNames
  <2> QED BY <2>1, SequenceOfSix, Zenon
<1>2. \A step \in PreparationNames :
        /\ One(step) \in Seq(Tasks(PreparationNames))
        /\ EachMint(step) \in Seq(Tasks(PreparationNames))
  BY TasksAre
<1>3. /\ One("whitelist_authority") \in Seq(Tasks(PreparationNames))
      /\ EachMint("extra_account_metas") \in Seq(Tasks(PreparationNames))
      /\ One("amm_admin") \in Seq(Tasks(PreparationNames))
      /\ One("need_accounts") \in Seq(Tasks(PreparationNames))
      /\ EachMint("mint_supply") \in Seq(Tasks(PreparationNames))
      /\ EachMint("whitelist_admin") \in Seq(Tasks(PreparationNames))
      /\ One("vault_config") \in Seq(Tasks(PreparationNames))
      /\ EachMint("whitelist_vault") \in Seq(Tasks(PreparationNames))
  BY <1>2 DEF PreparationNames
<1> QED BY <1>1, <1>3, ConcatTasks, Zenon DEF Preparation

LEMMA LaunchingNamed == Launching \in Seq(Tasks(LaunchingNames))
<1>1. \A step \in LaunchingNames :
        /\ One(step) \in Seq(Tasks(LaunchingNames))
        /\ EachMint(step) \in Seq(Tasks(LaunchingNames))
        /\ EachToken(step) \in Seq(Tasks(LaunchingNames))
  BY TasksAre
<1>2. /\ EachMint("burn_mint_authority") \in Seq(Tasks(LaunchingNames))
      /\ One("epoch_state") \in Seq(Tasks(LaunchingNames))
      /\ One("stake_pool") \in Seq(Tasks(LaunchingNames))
      /\ One("whitelist_stake_vault") \in Seq(Tasks(LaunchingNames))
      /\ One("carnage_fund") \in Seq(Tasks(LaunchingNames))
      /\ One("carnage_wsol") \in Seq(Tasks(LaunchingNames))
      /\ One("wsol_intermediary") \in Seq(Tasks(LaunchingNames))
      /\ One("carnage_sol") \in Seq(Tasks(LaunchingNames))
      /\ EachToken("whitelist_carnage") \in Seq(Tasks(LaunchingNames))
      /\ One("bc_deployed") \in Seq(Tasks(LaunchingNames))
      /\ One("bc_admin") \in Seq(Tasks(LaunchingNames))
      /\ EachToken("curve") \in Seq(Tasks(LaunchingNames))
      /\ EachToken("whitelist_curve") \in Seq(Tasks(LaunchingNames))
      /\ EachToken("fund") \in Seq(Tasks(LaunchingNames))
      /\ One("launch_gate") \in Seq(Tasks(LaunchingNames))
      /\ EachToken("start") \in Seq(Tasks(LaunchingNames))
      /\ One("manifest") \in Seq(Tasks(LaunchingNames))
  BY <1>1 DEF LaunchingNames
<1> QED BY <1>2, ConcatTasks, Zenon DEF Launching

\* The plan is the three parts one after another.
TaskNames == PreparationNames \union {"seed_vault"} \union LaunchingNames
PlanIsOrdered ==
  LET first == Len(Preparation)
  IN  /\ Plan \in Seq(Tasks(TaskNames))
      /\ first \in Nat /\ Len(Launching) \in Nat
      /\ Len(Plan) = first + 3 + Len(Launching)
      /\ \A i \in 1..first : Plan[i] \in Tasks(PreparationNames)
      /\ Plan[first + 1] = <<"seed_vault", "CRIME">>
      /\ Plan[first + 2] = <<"seed_vault", "FRAUD">>
      /\ Plan[first + 3] = <<"seed_vault", "PROFIT">>
      /\ \A i \in 1..Len(Launching) : Plan[first + 3 + i] \in Tasks(LaunchingNames)

LEMMA PlanOrdered == PlanIsOrdered
<1> DEFINE All == Tasks(TaskNames)
           S == EachMint("seed_vault")
           P == Preparation \o S
<1>1. Preparation \in Seq(All) /\ Launching \in Seq(All)
  BY PreparationNamed, LaunchingNamed, MoreTasks, Zenon DEF TaskNames
<1>2. S \in Seq(All)
  BY TasksAre DEF TaskNames
<1>3. /\ Len(S) = 3 /\ S[1] = <<"seed_vault", "CRIME">>
      /\ S[2] = <<"seed_vault", "FRAUD">> /\ S[3] = <<"seed_vault", "PROFIT">>
  BY DEF EachMint
<1>4. Plan = P \o Launching
  BY DEF Plan
<1> HIDE DEF S
<1>5. /\ P \in Seq(All) /\ Len(Preparation) \in Nat
      /\ Len(P) = Len(Preparation) + 3
      /\ \A i \in 1..Len(Preparation) : P[i] = Preparation[i]
      /\ \A i \in 1..3 : P[Len(Preparation) + i] = S[i]
  <2> HIDE DEF All
  <2>1. /\ P \in Seq(All) /\ Len(Preparation) \in Nat
        /\ Len(P) = Len(Preparation) + Len(S)
        /\ \A i \in 1..Len(Preparation) : P[i] = Preparation[i]
        /\ \A i \in 1..Len(S) : P[Len(Preparation) + i] = S[i]
    BY <1>1, <1>2, ConcatTasks
  <2> QED BY <1>3, <2>1
<1> HIDE DEF P, All
<1>6. /\ Plan \in Seq(All) /\ Len(Launching) \in Nat
      /\ Len(Plan) = Len(P) + Len(Launching)
      /\ \A i \in 1..Len(P) : Plan[i] = P[i]
      /\ \A i \in 1..Len(Launching) : Plan[Len(P) + i] = Launching[i]
  <2>1. /\ P \o Launching \in Seq(All) /\ Len(Launching) \in Nat
        /\ Len(P \o Launching) = Len(P) + Len(Launching)
        /\ \A i \in 1..Len(P) : (P \o Launching)[i] = P[i]
        /\ \A i \in 1..Len(Launching) : (P \o Launching)[Len(P) + i] = Launching[i]
    <3>1. P \in Seq(All) /\ Launching \in Seq(All)
      BY <1>1, <1>5
    <3> QED BY ONLY <3>1, ConcatTasks
  <2> QED BY <1>4, <2>1, Zenon
<1>7. \A i \in 1..Len(Preparation) : Plan[i] \in Tasks(PreparationNames)
  <2>1. \A i \in 1..Len(Preparation) : Preparation[i] \in Tasks(PreparationNames)
    BY PreparationNamed, ElementOfSeq
  <2>2. \A i \in 1..Len(Preparation) : i \in 1..Len(P)
    BY <1>5
  <2> QED BY <1>5, <1>6, <2>1, <2>2, Zenon
<1>8. /\ Plan[Len(Preparation) + 1] = S[1]
      /\ Plan[Len(Preparation) + 2] = S[2]
      /\ Plan[Len(Preparation) + 3] = S[3]
  <2>1. \A i \in 1..3 : Len(Preparation) + i \in 1..Len(P)
    BY <1>5
  <2>2. \A i \in 1..3 : Plan[Len(Preparation) + i] = S[i]
    BY <1>5, <1>6, <2>1, Zenon
  <2> QED BY <2>2
<1>9. \A i \in 1..Len(Launching) :
        Plan[Len(Preparation) + 3 + i] \in Tasks(LaunchingNames)
  <2>1. \A i \in 1..Len(Launching) : Launching[i] \in Tasks(LaunchingNames)
    BY LaunchingNamed, ElementOfSeq
  <2> QED BY <1>5, <1>6, <2>1, Zenon
<1>10. Len(Plan) = Len(Preparation) + 3 + Len(Launching)
  BY <1>5, <1>6
<1> QED BY <1>3, <1>5, <1>6, <1>7, <1>8, <1>9, <1>10, Zenon DEF All, PlanIsOrdered

\* Every vault is seeded before the script asks for the bonding-curve program or
\* makes a curve.
LEMMA SeedingComesFirst ==
  ASSUME NEW k \in 1..Len(Plan), NEW u,
         Plan[k] = <<"bc_deployed", u>> \/ Plan[k] = <<"curve", u>>
  PROVE  /\ \A t \in Mint : \E i \in 1..k - 1 : Plan[i] = <<"seed_vault", t>>
         /\ \A i \in k..Len(Plan) : \A t : Plan[i] # <<"seed_vault", t>>
<1> DEFINE first == Len(Preparation)
<1>0. PlanIsOrdered
  BY PlanOrdered
<1>1. first \in Nat /\ Len(Launching) \in Nat /\ Len(Plan) = first + 3 + Len(Launching)
  BY <1>0 DEF PlanIsOrdered
<1>2. \A i \in 1..first : \A t :
        Plan[i] # <<"bc_deployed", t>> /\ Plan[i] # <<"curve", t>>
  <2>1. "bc_deployed" \notin PreparationNames /\ "curve" \notin PreparationNames
    BY DEF PreparationNames
  <2> QED BY <1>0, <2>1, TaskNamed, Zenon DEF PlanIsOrdered
<1>3. \A i \in 1..Len(Launching) : \A t : Plan[first + 3 + i] # <<"seed_vault", t>>
  <2>1. "seed_vault" \notin LaunchingNames
    BY DEF LaunchingNames
  <2> QED BY <1>0, <2>1, TaskNamed, Zenon DEF PlanIsOrdered
<1>4. /\ Plan[first + 1] = <<"seed_vault", "CRIME">>
      /\ Plan[first + 2] = <<"seed_vault", "FRAUD">>
      /\ Plan[first + 3] = <<"seed_vault", "PROFIT">>
  BY <1>0 DEF PlanIsOrdered
<1>5. \A step, t : <<step, t>> = Plan[k] => step # "seed_vault"
  OBVIOUS
<1>6. k # first + 1 /\ k # first + 2 /\ k # first + 3
  BY <1>4, <1>5
<1>7. k \notin 1..first
  BY <1>2
<1> HIDE DEF first
<1>8. k > first + 3
  BY <1>1, <1>6, <1>7
<1>9. \A t \in Mint : \E i \in 1..k - 1 : Plan[i] = <<"seed_vault", t>>
  <2>1. first + 1 \in 1..k - 1 /\ first + 2 \in 1..k - 1 /\ first + 3 \in 1..k - 1
    BY <1>1, <1>8
  <2> QED BY <1>4, <2>1, Zenon DEF Mint
<1>10. ASSUME NEW i \in k..Len(Plan), NEW t PROVE Plan[i] # <<"seed_vault", t>>
  <2>1. /\ i - (first + 3) \in 1..Len(Launching)
        /\ first + 3 + (i - (first + 3)) = i
    BY <1>1, <1>8
  <2> QED BY <1>3, <2>1
<1> QED BY <1>9, <1>10

--------------------------------------------------------------------------------
(***************************************************************************)
(* Where the tokens are: what the scripts hold is typed, each task moves   *)
(* tokens in one of five ways, and the vaults are seeded before there is a *)
(* curve.  A conversion moves no tokens of the scripts: it changes what a  *)
(* vault holds besides what they put in.                                   *)
(***************************************************************************)
ChainType == [exists : SUBSET Tasks(TaskNames), bc_deployed : BOOLEAN,
              authority : SUBSET Mint, supply : [Mint -> Nat],
              admin : [Mint -> Nat], vault : [Mint -> Nat], staked : Nat]
ScriptType == [run : {"idle", "running", "done"}, pc : Nat,
               created : SUBSET Mint, need : BOOLEAN,
               source : [Mint -> {"none", "empty", "funded"}]]
ProcessType == [on : BOOLEAN, override : BOOLEAN, step : Nat,
                phase : {"exec", "save", "mark", "send"}, got : Nat,
                wsol : BOOLEAN, seed : Nat \ {0}]
FileType == [completed : SUBSET Nat, withdrawn : [Token -> Nat]]
PoolType == [Token -> [sol : Nat, tokens : Nat]]

LaunchTyped ==
  /\ chain \in ChainType
  /\ script \in ScriptType
  /\ grad \in ProcessType
  /\ file \in FileType
  /\ pool \in PoolType
  /\ overridden \subseteq Token
  /\ converted \in [Mint -> Int]
  /\ emptied \subseteq Mint
  /\ \A t \in Mint : VaultBalance(t) \in Nat

\* The seven ways a script treats tokens: it leaves them, mints a supply, seeds a
\* vault, makes the dead stake, funds a curve, opens a pool, or seeds a vault
\* that has been emptied.
TokensStay ==
  /\ chain'.supply = chain.supply /\ chain'.admin = chain.admin
  /\ chain'.vault = chain.vault /\ chain'.staked = chain.staked
  /\ chain.exists \subseteq chain'.exists
  /\ UNCHANGED <<funded, pool>>
MintsSupply(t) ==
  /\ chain.supply[t] < TOTAL_SUPPLY[t]
  /\ chain' = [chain EXCEPT !.supply[t] = TOTAL_SUPPLY[t],
                            !.admin[t] = TOTAL_SUPPLY[t]]
  /\ UNCHANGED <<funded, pool>>
SeedsVault(t) ==
  /\ ~(VaultBalance(t) > 0) /\ chain.admin[t] >= VAULT_SEED[t]
  /\ chain' = [chain EXCEPT !.vault[t] = @ + VAULT_SEED[t],
                            !.admin[t] = @ - VAULT_SEED[t]]
  /\ UNCHANGED <<funded, pool>>
MakesStake ==
  /\ ~Exists("stake_pool", "") /\ chain.admin["PROFIT"] >= MINIMUM_STAKE
  /\ chain' = [chain EXCEPT !.exists = @ \union {<<"stake_pool", "">>},
                            !.staked = MINIMUM_STAKE,
                            !.admin["PROFIT"] = @ - MINIMUM_STAKE]
  /\ UNCHANGED <<funded, pool>>
FundsCurve(c) ==
  /\ ~(token_vault[c] > 0) /\ curve[c].status = "Initialized"
  /\ chain.admin[c] >= TARGET_TOKENS
  /\ chain' = [chain EXCEPT !.admin[c] = @ - TARGET_TOKENS]
  /\ funded' = Plus(funded, c, TARGET_TOKENS)
  /\ UNCHANGED pool
OpensPool(c) ==
  /\ ~(pool[c].tokens > 0) /\ chain.admin[c] >= GRADUATION_POOL_SEED_TOKEN
  /\ chain' = [chain EXCEPT !.admin[c] = @ - GRADUATION_POOL_SEED_TOKEN]
  /\ \E sol \in Nat :
       pool' = [pool EXCEPT ![c] =
                 [sol |-> sol, tokens |-> GRADUATION_POOL_SEED_TOKEN]]
  /\ UNCHANGED funded
ReseedsVault(t) ==
  /\ t \in emptied /\ chain.admin[t] >= GraduationSeed(t)
  /\ chain' = [chain EXCEPT !.vault[t] = @ + GraduationSeed(t),
                            !.admin[t] = @ - GraduationSeed(t)]
  /\ UNCHANGED <<funded, pool>>

ScriptMoves ==
  \/ TokensStay
  \/ \E t \in Mint : MintsSupply(t) \/ SeedsVault(t)
  \/ MakesStake
  \/ \E c \in Token : FundsCurve(c)
Moves ==
  \/ ScriptMoves
  \/ \E c \in Token : OpensPool(c)
  \/ \E t \in Mint : ReseedsVault(t)

LEMMA GraduationSeedNat ==
  ASSUME NEW t \in Mint
  PROVE  GraduationSeed(t) \in Nat
  BY DeploymentAssumption DEF GraduationSeed

\* Updates of the two records.
LEMMA SetSupplyTyped ==
  ASSUME NEW k \in ChainType, NEW t \in Mint, NEW n \in Nat
  PROVE  [k EXCEPT !.supply[t] = n, !.admin[t] = n] \in ChainType
  BY DEF ChainType

LEMMA SetAdminTyped ==
  ASSUME NEW k \in ChainType, NEW t \in Mint, NEW n \in Nat, k.admin[t] >= n
  PROVE  [k EXCEPT !.admin[t] = @ - n] \in ChainType
  BY DEF ChainType

LEMMA SetVaultAndAdminTyped ==
  ASSUME NEW k \in ChainType, NEW t \in Mint, NEW v \in Nat, NEW a \in Nat
  PROVE  [k EXCEPT !.vault[t] = v, !.admin[t] = a] \in ChainType
  BY DEF ChainType

LEMMA SetVaultTyped ==
  ASSUME NEW k \in ChainType, NEW t \in Mint, NEW n \in Nat, k.admin[t] >= n
  PROVE  [k EXCEPT !.vault[t] = @ + n, !.admin[t] = @ - n] \in ChainType
<1>1. k.vault[t] + n \in Nat /\ k.admin[t] - n \in Nat
  BY DEF ChainType
<1> QED BY <1>1, SetVaultAndAdminTyped, Zenon

LEMMA SetStakedAndAdminTyped ==
  ASSUME NEW k \in ChainType, NEW e \in SUBSET Tasks(TaskNames), NEW n \in Nat,
         NEW a \in Nat
  PROVE  [k EXCEPT !.exists = e, !.staked = n, !.admin["PROFIT"] = a] \in ChainType
  BY DEF ChainType, Mint

LEMMA SetStakedTyped ==
  ASSUME NEW k \in ChainType, NEW e \in Tasks(TaskNames), NEW n \in Nat,
         k.admin["PROFIT"] >= n
  PROVE  [k EXCEPT !.exists = @ \union {e}, !.staked = n,
                   !.admin["PROFIT"] = @ - n] \in ChainType
<1>1. "PROFIT" \in Mint
  BY DEF Mint
<1>2. k.exists \union {e} \in SUBSET Tasks(TaskNames) /\ k.admin["PROFIT"] - n \in Nat
  BY <1>1 DEF ChainType
<1> QED BY <1>2, SetStakedAndAdminTyped, Zenon

LEMMA SetAuthorityTyped ==
  ASSUME NEW k \in ChainType, NEW e \in SUBSET Tasks(TaskNames), NEW m \in SUBSET Mint
  PROVE  /\ [k EXCEPT !.exists = e, !.authority = m] \in ChainType
         /\ [k EXCEPT !.authority = m] \in ChainType
         /\ [k EXCEPT !.exists = e] \in ChainType
  BY DEF ChainType

LEMMA SetScriptTyped ==
  ASSUME NEW s \in ScriptType, NEW n \in Nat
  PROVE  /\ [s EXCEPT !.pc = n] \in ScriptType
         /\ \A m \in SUBSET Mint :
              [s EXCEPT !.pc = n, !.created = m] \in ScriptType
         /\ \A t \in Mint, v \in {"none", "empty", "funded"} :
              [s EXCEPT !.pc = n, !.source[t] = v] \in ScriptType
         /\ \A b \in BOOLEAN, f \in [Mint -> {"none", "empty", "funded"}] :
              [s EXCEPT !.pc = n, !.need = b, !.source = f] \in ScriptType
<1>1. [s EXCEPT !.pc = n] \in ScriptType
  BY DEF ScriptType
<1>2. ASSUME NEW m \in SUBSET Mint
      PROVE  [s EXCEPT !.pc = n, !.created = m] \in ScriptType
  BY DEF ScriptType
<1>3. ASSUME NEW t \in Mint, NEW v \in {"none", "empty", "funded"}
      PROVE  [s EXCEPT !.pc = n, !.source[t] = v] \in ScriptType
  BY DEF ScriptType
<1>4. ASSUME NEW b \in BOOLEAN, NEW f \in [Mint -> {"none", "empty", "funded"}]
      PROVE  [s EXCEPT !.pc = n, !.need = b, !.source = f] \in ScriptType
  BY DEF ScriptType
<1> QED BY <1>1, <1>2, <1>3, <1>4

LEMMA CreateTyped ==
  ASSUME chain \in ChainType, NEW step \in TaskNames,
         NEW t \in {"", "CRIME", "FRAUD", "PROFIT"},
         Create(step, t), UNCHANGED <<funded, pool>>
  PROVE  chain' \in ChainType /\ TokensStay
<1>1. <<step, t>> \in Tasks(TaskNames)
  BY DEF Tasks
<1> QED BY <1>1 DEF Create, ChainType, TokensStay

LEMMA ProceedTyped ==
  ASSUME script \in ScriptType, Proceed
  PROVE  script' \in ScriptType
  BY DEF Proceed, ScriptType

LEMMA IdleTyped ==
  /\ Idle \in ScriptType
  /\ \A run \in {"idle", "running", "done"} : [Idle EXCEPT !.run = run] \in ScriptType
  BY DEF Idle, ScriptType

LEMMA UnchangedStays ==
  ASSUME UNCHANGED <<chain, funded, pool>>
  PROVE  TokensStay
  BY DEF TokensStay

\* A task leaves the script and the chain typed and moves tokens in one way.
LEMMA ScriptStepMoves ==
  ASSUME LaunchTyped, ScriptStep, UNCHANGED pool
  PROVE  chain' \in ChainType /\ script' \in ScriptType /\ ScriptMoves
<1>0. chain \in ChainType /\ script \in ScriptType
  BY DEF LaunchTyped
<1>1. CASE createMint
  <2>1. PICK t \in Mint :
          /\ \/ Proceed /\ UNCHANGED chain
             \/ /\ chain' = [chain EXCEPT !.exists = @ \union {<<"mint", t>>},
                                           !.authority = @ \union {t}]
                /\ script' = [script EXCEPT !.pc = @ + 1,
                                            !.created = @ \union {t}]
          /\ UNCHANGED <<funded, pool>>
    BY <1>1 DEF createMint, curveVars, tokens
  <2>2. CASE UNCHANGED chain /\ Proceed
    BY <1>0, <2>1, <2>2, UnchangedStays, ProceedTyped DEF ScriptMoves
  <2>3. CASE /\ chain' = [chain EXCEPT !.exists = @ \union {<<"mint", t>>},
                                       !.authority = @ \union {t}]
             /\ script' = [script EXCEPT !.pc = @ + 1,
                                         !.created = @ \union {t}]
    <3>1. <<"mint", t>> \in Tasks(TaskNames)
      BY DEF Tasks, TaskNames, PreparationNames, Mint
    <3>2. /\ chain.exists \union {<<"mint", t>>} \in SUBSET Tasks(TaskNames)
          /\ chain.authority \union {t} \in SUBSET Mint
          /\ script.created \union {t} \in SUBSET Mint /\ script.pc + 1 \in Nat
      BY <1>0, <3>1 DEF ChainType, ScriptType
    <3>3. chain' \in ChainType
      BY <1>0, <2>3, <3>2, SetAuthorityTyped, Zenon
    <3>4. script' \in ScriptType
      BY <1>0, <2>3, <3>2, SetScriptTyped, Zenon
    <3>5. TokensStay
      BY <1>0, <2>1, <2>3 DEF TokensStay, ChainType
    <3> QED BY <3>3, <3>4, <3>5 DEF ScriptMoves
  <2> QED BY <2>1, <2>2, <2>3
<1>2. CASE initializeMetadata
  <2>1. PICK t \in Mint : /\ Create("metadata", t) \/ UNCHANGED chain
                          /\ Proceed /\ UNCHANGED <<funded, pool>>
    BY <1>2 DEF initializeMetadata, curveVars, tokens
  <2>2. "metadata" \in TaskNames /\ t \in {"", "CRIME", "FRAUD", "PROFIT"}
    BY DEF TaskNames, PreparationNames, Mint
  <2>3. chain' \in ChainType /\ TokensStay
    BY <1>0, <2>1, <2>2, CreateTyped, UnchangedStays
  <2> QED BY <1>0, <2>1, <2>3, ProceedTyped DEF ScriptMoves
<1>3. CASE \/ initializeExtraAccountMetas \/ initializeAmmAdmin
           \/ initializeVaultConfig \/ initializeEpochState
           \/ initializeCarnageFund \/ createCarnageWsol
           \/ initializeWsolIntermediary \/ fundCarnageSol
  <2>1. PICK step \in TaskNames, t \in {"", "CRIME", "FRAUD", "PROFIT"} :
          Create(step, t) /\ Proceed /\ UNCHANGED <<funded, pool>>
    BY <1>3 DEF initializeExtraAccountMetas, initializeAmmAdmin,
       initializeVaultConfig, initializeEpochState, initializeCarnageFund,
       createCarnageWsol, initializeWsolIntermediary, fundCarnageSol, Ensure,
       Mint, curveVars, tokens, TaskNames, PreparationNames, LaunchingNames
  <2> QED BY <1>0, <2>1, CreateTyped, ProceedTyped DEF ScriptMoves
<1>4. CASE \/ initializeWhitelistAuthority \/ whitelistAdminAccounts
           \/ whitelistConversionVaults \/ whitelistStakeVault
           \/ whitelistCarnageVaults \/ whitelistCurveVaults
  <2>1. Proceed /\ UNCHANGED <<chain, funded, pool>>
    BY <1>4 DEF initializeWhitelistAuthority, whitelistAdminAccounts,
       whitelistConversionVaults, whitelistStakeVault, whitelistCarnageVaults,
       whitelistCurveVaults, curveVars, tokens
  <2> QED BY <1>0, <2>1, UnchangedStays, ProceedTyped DEF ScriptMoves
<1>5. CASE initializeBcAdmin \/ initializeCurve
  <2>1. Proceed /\ UNCHANGED <<chain, funded, pool>>
    BY <1>5 DEF initializeBcAdmin, initializeCurve, initialize_bc_admin,
       initialize_curve, curveVars, tokens
  <2> QED BY <1>0, <2>1, UnchangedStays, ProceedTyped DEF ScriptMoves
<1>6. CASE launchGate \/ startCurve
  <2>1. (Proceed \/ script' = Idle) /\ UNCHANGED <<chain, funded, pool>>
    BY <1>6 DEF launchGate, Fail, startCurve, start_curve, curveVars, tokens
  <2> QED BY <1>0, <2>1, UnchangedStays, ProceedTyped, IdleTyped DEF ScriptMoves
<1>7. CASE needT22Accounts
  <2> DEFINE need == (vaultNeedsSeeding \/ stakingNeedsInit) /\ chain.authority # {}
             source == [t \in Mint |-> IF ~need /\ chain.supply[t] > 0
                                       THEN "funded" ELSE "none"]
  <2>1. /\ script' = [script EXCEPT !.pc = @ + 1, !.need = need, !.source = source]
        /\ UNCHANGED <<chain, funded, pool>>
    BY <1>7 DEF needT22Accounts, curveVars, tokens
  <2>2. /\ need \in BOOLEAN /\ script.pc + 1 \in Nat
        /\ source \in [Mint -> {"none", "empty", "funded"}]
    BY <1>0 DEF ScriptType
  <2> HIDE DEF need, source
  <2>3. script' \in ScriptType
    BY <1>0, <2>1, <2>2, SetScriptTyped, Zenon
  <2> QED BY <1>0, <2>1, <2>3, UnchangedStays DEF ScriptMoves
<1>8. CASE mintSupply
  <2>1. PICK t \in Mint :
          /\ IF ~script.need THEN Proceed /\ UNCHANGED chain
             ELSE IF chain.supply[t] >= TOTAL_SUPPLY[t]
             THEN /\ script' = [script EXCEPT !.pc = @ + 1, !.source[t] = "empty"]
                  /\ UNCHANGED chain
             ELSE /\ chain' = [chain EXCEPT !.supply[t] = TOTAL_SUPPLY[t],
                                            !.admin[t] = TOTAL_SUPPLY[t]]
                  /\ script' = [script EXCEPT !.pc = @ + 1, !.source[t] = "funded"]
          /\ UNCHANGED <<funded, pool>>
    BY <1>8 DEF mintSupply, curveVars, tokens
  <2>2. CASE UNCHANGED chain
    <3>1. \/ Proceed
          \/ script' = [script EXCEPT !.pc = @ + 1, !.source[t] = "empty"]
          \/ script' = [script EXCEPT !.pc = @ + 1, !.source[t] = "funded"]
      BY <2>1
    <3>2. script.pc + 1 \in Nat
      BY <1>0 DEF ScriptType
    <3>3. script' \in ScriptType
      <4>1. CASE Proceed
        BY <1>0, <4>1, ProceedTyped
      <4>2. CASE \E v \in {"empty", "funded"} :
                   script' = [script EXCEPT !.pc = @ + 1, !.source[t] = v]
        <5>1. PICK v \in {"none", "empty", "funded"} :
                script' = [script EXCEPT !.pc = script.pc + 1, !.source[t] = v]
          BY <4>2
        <5> QED BY <1>0, <3>2, <5>1, SetScriptTyped, Zenon
      <4> QED BY <3>1, <4>1, <4>2
    <3> QED BY <1>0, <2>1, <2>2, <3>3, UnchangedStays DEF ScriptMoves
  <2>3. CASE /\ ~(chain.supply[t] >= TOTAL_SUPPLY[t])
             /\ chain' = [chain EXCEPT !.supply[t] = TOTAL_SUPPLY[t],
                                       !.admin[t] = TOTAL_SUPPLY[t]]
             /\ script' = [script EXCEPT !.pc = @ + 1, !.source[t] = "funded"]
    <3>1. script' \in ScriptType
      <4>1. script.pc + 1 \in Nat
        BY <1>0 DEF ScriptType
      <4> QED BY <1>0, <2>3, <4>1, SetScriptTyped
    <3>2. TOTAL_SUPPLY[t] \in Nat /\ chain.supply[t] \in Nat
      BY <1>0, DeploymentAssumption DEF ChainType
    <3>3. chain' \in ChainType
      BY <1>0, <2>3, <3>2, SetSupplyTyped
    <3>4. MintsSupply(t)
      BY <2>1, <2>3, <3>2 DEF MintsSupply
    <3> QED BY <3>1, <3>3, <3>4 DEF ScriptMoves
  <2> QED BY <2>1, <2>2, <2>3
<1>9. CASE seedVault
  <2>1. PICK t \in Mint :
          /\ \/ (Proceed \/ script' = Idle) /\ UNCHANGED chain
             \/ Proceed /\ SeedsVault(t)
          /\ UNCHANGED <<funded, pool>>
    BY <1>9 DEF seedVault, CanSend, SeedsVault, Fail, curveVars, tokens
  <2>2. script' \in ScriptType
    BY <1>0, <2>1, ProceedTyped, IdleTyped
  <2>3. CASE UNCHANGED chain
    BY <1>0, <2>1, <2>2, <2>3, UnchangedStays DEF ScriptMoves
  <2>4. CASE SeedsVault(t)
    <3>1. VAULT_SEED[t] \in Nat
      BY DeploymentAssumption
    <3>2. chain' \in ChainType
      BY <1>0, <2>4, <3>1, SetVaultTyped DEF SeedsVault
    <3> QED BY <2>2, <2>4, <3>2 DEF ScriptMoves
  <2> QED BY <2>1, <2>3, <2>4
<1>10. CASE burnMintAuthority
  <2>1. PICK t \in Mint : /\ chain' = [chain EXCEPT !.authority = @ \ {t}]
                          /\ Proceed /\ UNCHANGED <<funded, pool>>
    BY <1>10 DEF burnMintAuthority, curveVars, tokens
  <2> QED BY <1>0, <2>1, ProceedTyped DEF ScriptMoves, TokensStay, ChainType
<1>11. CASE initializeStakePool
  <2>1. /\ \/ (Proceed \/ script' = Idle) /\ UNCHANGED chain
           \/ Proceed /\ MakesStake
        /\ UNCHANGED <<funded, pool>>
    BY <1>11 DEF initializeStakePool, CanSend, MakesStake, Fail, curveVars, tokens
  <2>2. script' \in ScriptType
    BY <1>0, <2>1, ProceedTyped, IdleTyped
  <2>3. CASE UNCHANGED chain
    BY <1>0, <2>1, <2>2, <2>3, UnchangedStays DEF ScriptMoves
  <2>4. CASE MakesStake
    <3>0. <<"stake_pool", "">> \in Tasks(TaskNames) /\ MINIMUM_STAKE \in Nat
      BY DeploymentAssumption DEF Tasks, TaskNames, LaunchingNames
    <3>1. chain' \in ChainType
      BY <1>0, <2>4, <3>0, SetStakedTyped DEF MakesStake
    <3> QED BY <2>2, <2>4, <3>1 DEF ScriptMoves
  <2> QED BY <2>1, <2>3, <2>4
<1>12. CASE checkBcDeployed
  <2>1. /\ script' = [script EXCEPT
                       !.pc = IF chain.bc_deployed THEN @ + 1 ELSE Len(Plan)]
        /\ UNCHANGED <<chain, funded, pool>>
    BY <1>12 DEF checkBcDeployed, curveVars, tokens
  <2>2. script' \in ScriptType
    <3>1. Len(Plan) \in Nat /\ script.pc + 1 \in Nat
      BY <1>0, PlanOrdered DEF ScriptType, PlanIsOrdered
    <3> QED BY <1>0, <2>1, <3>1, SetScriptTyped
  <2> QED BY <1>0, <2>1, <2>2, UnchangedStays DEF ScriptMoves
<1>13. CASE fundCurve
  <2>1. PICK c \in Token :
          \/ (Proceed \/ script' = Idle) /\ UNCHANGED <<chain, funded, pool>>
          \/ Proceed /\ FundsCurve(c)
    BY <1>13 DEF fundCurve, CanSend, FundsCurve, fund_curve, Fail, curveVars, tokens
  <2>2. script' \in ScriptType
    BY <1>0, <2>1, ProceedTyped, IdleTyped
  <2>3. CASE UNCHANGED <<chain, funded, pool>>
    BY <1>0, <2>2, <2>3, UnchangedStays DEF ScriptMoves
  <2>4. CASE FundsCurve(c)
    <3>1. c \in Mint /\ TARGET_TOKENS \in Nat
      BY BondingCurveAssumption DEF Token, Mint
    <3>2. chain' \in ChainType
      BY <1>0, <2>4, <3>1, SetAdminTyped DEF FundsCurve
    <3> QED BY <2>2, <2>4, <3>2 DEF ScriptMoves
  <2> QED BY <2>1, <2>3, <2>4
<1>14. CASE writeManifest
  <2>1. /\ Create("manifest", "") /\ UNCHANGED <<funded, pool>>
        /\ \E run \in {"idle", "done"} : script' = [Idle EXCEPT !.run = run]
    BY <1>14 DEF writeManifest, curveVars, tokens
  <2>2. script' \in ScriptType
    BY <2>1, IdleTyped
  <2>3. "manifest" \in TaskNames
    BY DEF TaskNames, LaunchingNames
  <2> QED BY <1>0, <2>1, <2>2, <2>3, CreateTyped DEF ScriptMoves
<1> QED BY <1>1, <1>2, <1>3, <1>4, <1>5, <1>6, <1>7, <1>8, <1>9, <1>10, <1>11,
           <1>12, <1>13, <1>14 DEF ScriptStep

LEMMA SetProcessTyped ==
  ASSUME NEW g \in ProcessType, NEW phase \in {"exec", "save", "mark", "send"},
         NEW n \in Nat
  PROVE  /\ [g EXCEPT !.phase = phase] \in ProcessType
         /\ [g EXCEPT !.phase = phase, !.got = n] \in ProcessType
         /\ [g EXCEPT !.step = n] \in ProcessType
         /\ [g EXCEPT !.seed = @ + 1] \in ProcessType
         /\ [g EXCEPT !.wsol = TRUE] \in ProcessType
         /\ NotRunning \in ProcessType
         /\ \A b \in BOOLEAN :
              /\ [NotRunning EXCEPT !.on = TRUE, !.override = b] \in ProcessType
              /\ [NotRunning EXCEPT !.on = TRUE, !.override = b, !.step = n]
                   \in ProcessType
<1>1. NotRunning \in ProcessType
  BY DEF NotRunning, Unknown, ProcessType
<1>2. /\ [g EXCEPT !.phase = phase] \in ProcessType
      /\ [g EXCEPT !.phase = phase, !.got = n] \in ProcessType
      /\ [g EXCEPT !.step = n] \in ProcessType
      /\ [g EXCEPT !.wsol = TRUE] \in ProcessType
  BY DEF ProcessType
<1>4. [g EXCEPT !.seed = @ + 1] \in ProcessType
  <2>1. g.seed + 1 \in Nat \ {0}
    BY DEF ProcessType
  <2>2. \A k \in Nat \ {0} : [g EXCEPT !.seed = k] \in ProcessType
    BY DEF ProcessType
  <2>3. [g EXCEPT !.seed = g.seed + 1] = [g EXCEPT !.seed = @ + 1]
    OBVIOUS
  <2> QED BY <2>1, <2>2, <2>3, Zenon
<1>3. ASSUME NEW b \in BOOLEAN
      PROVE  /\ [NotRunning EXCEPT !.on = TRUE, !.override = b] \in ProcessType
             /\ [NotRunning EXCEPT !.on = TRUE, !.override = b, !.step = n]
                  \in ProcessType
  BY <1>1 DEF ProcessType
<1> QED BY <1>1, <1>2, <1>3, <1>4

LEMMA WorkedTyped ==
  ASSUME grad \in ProcessType, Worked \/ Abort \/ UNCHANGED grad
  PROVE  grad' \in ProcessType
  BY SetProcessTyped DEF Worked, Abort

\* The vault has tokens, or conversions have taken all it had.
Stocked(t) == VaultBalance(t) > 0 \/ t \in emptied

\* A step of the graduation keeps what it holds typed; it moves tokens only to
\* open a pool, or to a vault that has been emptied, since the vaults are seeded.
LEMMA GraduationStepMoves ==
  ASSUME LaunchTyped, CurveTypeOK, GraduationStep, \A t \in Mint : Stocked(t)
  PROVE  /\ chain' \in ChainType /\ grad' \in ProcessType /\ file' \in FileType
         /\ pool' \in PoolType /\ overridden' \subseteq Token
         /\ \/ TokensStay
            \/ \E c \in Token : OpensPool(c)
            \/ \E t \in Mint : ReseedsVault(t)
<1>0. /\ chain \in ChainType /\ grad \in ProcessType /\ file \in FileType
      /\ pool \in PoolType /\ overridden \subseteq Token
  BY DEF LaunchTyped
<1> DEFINE Rest == /\ UNCHANGED <<chain, funded, file, pool, overridden>>
                   /\ grad' \in ProcessType
<1>1. ASSUME Rest
      PROVE  /\ chain' \in ChainType /\ grad' \in ProcessType /\ file' \in FileType
             /\ pool' \in PoolType /\ overridden' \subseteq Token
             /\ TokensStay
  BY <1>0, <1>1, UnchangedStays
<1>2. CASE SkipCompleted
  <2>1. grad.step + 1 \in Nat
    BY <1>0 DEF ProcessType
  <2>2. grad' = [grad EXCEPT !.step = grad.step + 1]
    BY <1>2 DEF SkipCompleted
  <2>3. grad' \in ProcessType
    BY <1>0, <2>1, <2>2, SetProcessTyped
  <2> QED BY <1>1, <1>2, <2>3 DEF SkipCompleted, curveVars, tokens
<1>3. CASE MarkCompleted
  <2>1. grad.step \in Nat /\ grad.step + 1 \in Nat /\ grad.override \in BOOLEAN
    BY <1>0 DEF ProcessType
  <2>2. grad' = [NotRunning EXCEPT !.on = TRUE, !.override = grad.override,
                                   !.step = grad.step + 1]
    BY <1>3 DEF MarkCompleted
  <2>3. grad' \in ProcessType
    BY <1>0, <2>1, <2>2, SetProcessTyped
  <2>4. file' \in FileType
    BY <1>0, <1>3, <2>1 DEF MarkCompleted, FileType
  <2>5. UNCHANGED <<chain, funded, pool, overridden>>
    BY <1>3 DEF MarkCompleted, curveVars, tokens
  <2> QED BY <1>0, <2>3, <2>4, <2>5, UnchangedStays
<1>4. CASE verifyFilled \/ burnWhitelistAuthority
  BY <1>0, <1>1, <1>4, WorkedTyped
     DEF verifyFilled, burnWhitelistAuthority, curveVars, tokens
<1>5. CASE prepareTransition
  BY <1>0, <1>1, <1>5, WorkedTyped
     DEF prepareTransition, prepare_transition, curveVars, tokens
<1>6. CASE withdrawSol
  <2>1. PICK c \in Token :
          \/ Worked
          \/ /\ ~(sol_vault[c] <= RENT)
             /\ grad' = [grad EXCEPT
                           !.phase = "save",
                           !.got = saturating_sub(sol_vault[c] - RENT, TX_FEE)]
    BY <1>6 DEF withdrawSol
  <2>2. ASSUME ~(sol_vault[c] <= RENT)
        PROVE  saturating_sub(sol_vault[c] - RENT, TX_FEE) \in Nat
    <3>1. sol_vault[c] \in Nat /\ RENT \in Nat /\ TX_FEE \in Nat
      BY BondingCurveAssumption, GraduationAssumption DEF CurveTypeOK
    <3> QED BY <2>2, <3>1 DEF saturating_sub
  <2>3. grad' \in ProcessType
    <3>1. CASE Worked
      BY <1>0, <3>1, WorkedTyped
    <3>2. CASE /\ ~(sol_vault[c] <= RENT)
               /\ grad' = [grad EXCEPT
                     !.phase = "save",
                     !.got = saturating_sub(sol_vault[c] - RENT, TX_FEE)]
      BY <1>0, <2>2, <3>2, SetProcessTyped, Zenon
    <3> QED BY <2>1, <3>1, <3>2
  <2>4. UNCHANGED <<chain, funded, file, pool, overridden>>
    BY <1>6 DEF withdrawSol, withdraw_graduated_sol, curveVars, tokens
  <2> QED BY <1>1, <2>3, <2>4
<1>7. CASE saveWithdrawn
  <2>1. PICK c \in Token : file' = [file EXCEPT !.withdrawn[c] = grad.got]
    BY <1>7 DEF saveWithdrawn
  <2>2. grad.got \in Nat
    BY <1>0 DEF ProcessType
  <2>3. file' \in FileType
    BY <1>0, <2>1, <2>2 DEF FileType
  <2>4. UNCHANGED <<chain, funded, pool, overridden>> /\ Worked
    BY <1>7 DEF saveWithdrawn, curveVars, tokens
  <2> QED BY <1>0, <2>3, <2>4, UnchangedStays, WorkedTyped
<1>8. CASE closeTokenVault
  BY <1>0, <1>1, <1>8, WorkedTyped
     DEF closeTokenVault, close_token_vault, curveVars, tokens
<1>9. CASE createAmmPool
  <2>1. PICK c \in Token :
          \/ /\ Worked \/ Abort \/ grad' = [grad EXCEPT !.wsol = TRUE]
             /\ UNCHANGED <<chain, pool, overridden>>
          \/ /\ ~(pool[c].tokens > 0) /\ CanInitializePool(c)
             /\ pool' = [pool EXCEPT ![c] =
                  [sol |-> resolvePoolSeedSol(c),
                   tokens |-> GRADUATION_POOL_SEED_TOKEN]]
             /\ chain' = [chain EXCEPT
                  !.admin[c] = @ - GRADUATION_POOL_SEED_TOKEN]
             /\ overridden' = IF grad.override THEN overridden \union {c}
                              ELSE overridden
             /\ Worked
    BY <1>9 DEF createAmmPool
  <2>2. UNCHANGED <<funded, file>>
    BY <1>9 DEF createAmmPool, curveVars, tokens
  <2>3. grad' \in ProcessType
    BY <1>0, <2>1, WorkedTyped, SetProcessTyped
  <2>4. CASE UNCHANGED <<chain, pool, overridden>>
    BY <1>1, <2>2, <2>3, <2>4
  <2>5. CASE /\ ~(pool[c].tokens > 0) /\ CanInitializePool(c)
             /\ pool' = [pool EXCEPT ![c] =
                  [sol |-> resolvePoolSeedSol(c),
                   tokens |-> GRADUATION_POOL_SEED_TOKEN]]
             /\ chain' = [chain EXCEPT
                  !.admin[c] = @ - GRADUATION_POOL_SEED_TOKEN]
             /\ overridden' = IF grad.override THEN overridden \union {c}
                              ELSE overridden
    <3>1. /\ c \in Mint /\ GRADUATION_POOL_SEED_TOKEN \in Nat
          /\ chain.admin[c] >= GRADUATION_POOL_SEED_TOKEN
      BY <2>5, GraduationAssumption DEF Token, Mint, CanInitializePool
    <3>2. resolvePoolSeedSol(c) \in Nat
      BY <1>0, GraduationAssumption DEF resolvePoolSeedSol, FileType, Unknown
    <3>3. chain' \in ChainType
      BY <1>0, <2>5, <3>1, SetAdminTyped
    <3>4. pool' \in PoolType
      BY <1>0, <2>5, <3>1, <3>2 DEF PoolType
    <3>5. OpensPool(c)
      BY <2>2, <2>5, <3>1, <3>2 DEF OpensPool
    <3> QED BY <1>0, <2>2, <2>3, <2>5, <3>3, <3>4, <3>5
  <2> QED BY <2>1, <2>4, <2>5
<1>10. CASE whitelistPoolVaults
  BY <1>0, <1>1, <1>10, WorkedTyped DEF whitelistPoolVaults, curveVars, tokens
<1>11. CASE seedConversionVault
  <2>1. UNCHANGED <<funded, file, pool, overridden>>
    BY <1>11 DEF seedConversionVault, curveVars, tokens
  <2>2. CASE grad.seed > Len(SeedingPlan)
    BY <1>0, <1>1, <1>11, <2>1, <2>2, WorkedTyped DEF seedConversionVault
  <2>3. CASE ~(grad.seed > Len(SeedingPlan))
    <3>1. PICK t : t = SeedingPlan[grad.seed]
      OBVIOUS
    <3>2. \/ /\ VaultBalance(t) > 0
             /\ grad' = [grad EXCEPT !.seed = @ + 1] /\ UNCHANGED chain
          \/ /\ ~(VaultBalance(t) > 0) /\ chain.admin[t] >= GraduationSeed(t)
             /\ chain' = [chain EXCEPT !.vault[t] = @ + GraduationSeed(t),
                                       !.admin[t] = @ - GraduationSeed(t)]
             /\ grad' = [grad EXCEPT !.seed = @ + 1]
          \/ Abort /\ UNCHANGED chain
      BY <1>11, <2>3, <3>1 DEF seedConversionVault
    <3>4. grad' \in ProcessType
      BY <1>0, <3>2, WorkedTyped, SetProcessTyped
    <3>5. CASE UNCHANGED chain
      BY <1>1, <2>1, <3>4, <3>5
    <3>6. CASE /\ ~(VaultBalance(t) > 0) /\ chain.admin[t] >= GraduationSeed(t)
               /\ chain' = [chain EXCEPT !.vault[t] = @ + GraduationSeed(t),
                                         !.admin[t] = @ - GraduationSeed(t)]
      <4>1. t \in Mint
        <5>1. grad.seed \in Nat \ {0} /\ Len(SeedingPlan) = 3
          BY <1>0 DEF ProcessType, SeedingPlan
        <5>2. grad.seed \in {1, 2, 3}
          BY <2>3, <5>1
        <5> QED BY <3>1, <5>2 DEF SeedingPlan, Mint
      <4>2. GraduationSeed(t) \in Nat
        BY <4>1, GraduationSeedNat
      <4>3. chain' \in ChainType
        BY <1>0, <3>6, <4>1, <4>2, SetVaultTyped, Zenon
      <4>4. t \in emptied
        BY <3>6, <4>1 DEF Stocked
      <4>5. ReseedsVault(t)
        BY <2>1, <3>6, <4>4 DEF ReseedsVault
      <4> QED BY <1>0, <2>1, <3>4, <4>1, <4>3, <4>5
    <3> QED BY <3>2, <3>5, <3>6
  <2> QED BY <2>2, <2>3
<1>12. CASE distributeTaxEscrow
  <2>1. \/ Worked \/ Abort
        \/ grad' = [grad EXCEPT !.phase = "send"]
    BY <1>12 DEF distributeTaxEscrow
  <2>2. grad' \in ProcessType
    BY <1>0, <2>1, WorkedTyped, SetProcessTyped
  <2> QED BY <1>1, <1>12, <2>2
          DEF distributeTaxEscrow, distribute_tax_escrow, curveVars, tokens
<1> QED BY <1>2, <1>3, <1>4, <1>5, <1>6, <1>7, <1>8, <1>9, <1>10, <1>11, <1>12
        DEF GraduationStep
--------------------------------------------------------------------------------
(***************************************************************************)
(* The vaults are seeded before a curve exists, hence before graduation.   *)
(***************************************************************************)
Seeded == \A t \in Mint : Stocked(t)

\* Every vault the running script has come past is seeded.
PassedAreSeeded ==
  script.run = "running" =>
    \A i \in 1..script.pc - 1, t \in Mint :
      Plan[i] = <<"seed_vault", t>> => Stocked(t)
CurvesAreSeeded == (\E c \in Token : curve[c].status # "None") => Seeded
GraduationIsSeeded == grad.on => Seeded
StakeIsMade == ~Exists("stake_pool", "") => chain.staked = 0

\* What the scripts put into a vault lasts until conversions have taken it all.
SeedsLast ==
  \A t \in Mint : t \notin emptied /\ chain.vault[t] > 0 => VaultBalance(t) > 0

SeedingInv ==
  /\ PassedAreSeeded /\ CurvesAreSeeded /\ GraduationIsSeeded
  /\ StakeIsMade /\ SeedsLast

\* The scripts take nothing out of a vault.
VaultsGrow == \A t \in Mint : chain'.vault[t] >= chain.vault[t]

LEMMA MovesKeepVaults ==
  ASSUME LaunchTyped, Moves
  PROVE  VaultsGrow /\ (StakeIsMade => StakeIsMade')
<1>0. chain \in ChainType /\ \A t \in Mint : chain.vault[t] \in Nat
  BY DEF LaunchTyped, ChainType
<1>1. ASSUME chain'.vault = chain.vault
      PROVE  VaultsGrow
  BY <1>0, <1>1 DEF VaultsGrow
<1>2. CASE TokensStay
  BY <1>1, <1>2 DEF TokensStay, StakeIsMade, Exists
<1>3. ASSUME NEW t \in Mint, MintsSupply(t)
      PROVE  VaultsGrow /\ (StakeIsMade => StakeIsMade')
  <2>1. chain'.vault = chain.vault /\ chain'.staked = chain.staked
        /\ chain'.exists = chain.exists
    BY <1>0, <1>3 DEF MintsSupply, ChainType
  <2> QED BY <1>1, <2>1 DEF StakeIsMade, Exists
<1>4. ASSUME NEW t \in Mint, NEW n \in Nat,
             chain' = [chain EXCEPT !.vault[t] = @ + n, !.admin[t] = @ - n]
      PROVE  VaultsGrow /\ (StakeIsMade => StakeIsMade')
  <2>1. /\ chain'.vault[t] = chain.vault[t] + n
        /\ \A u \in Mint \ {t} : chain'.vault[u] = chain.vault[u]
        /\ chain'.staked = chain.staked /\ chain'.exists = chain.exists
    BY <1>0, <1>4 DEF ChainType
  <2>2. ASSUME NEW u \in Mint PROVE chain'.vault[u] >= chain.vault[u]
    <3>1. chain.vault[u] \in Nat
      BY <1>0
    <3> QED BY <2>1, <3>1
  <2> QED BY <2>1, <2>2 DEF VaultsGrow, StakeIsMade, Exists
<1>5. ASSUME NEW t \in Mint, SeedsVault(t) \/ ReseedsVault(t)
      PROVE  VaultsGrow /\ (StakeIsMade => StakeIsMade')
  <2>1. PICK n \in Nat :
          chain' = [chain EXCEPT !.vault[t] = @ + n, !.admin[t] = @ - n]
    <3>1. VAULT_SEED[t] \in Nat /\ GraduationSeed(t) \in Nat
      BY DeploymentAssumption, GraduationSeedNat
    <3> QED BY <1>5, <3>1 DEF SeedsVault, ReseedsVault
  <2> QED BY <1>4, <2>1
<1>6. CASE MakesStake
  <2>1. /\ chain'.vault = chain.vault
        /\ chain'.exists = chain.exists \union {<<"stake_pool", "">>}
    BY <1>0, <1>6 DEF MakesStake, ChainType
  <2> QED BY <1>1, <2>1 DEF StakeIsMade, Exists
<1>7. ASSUME NEW c \in Token, FundsCurve(c) \/ OpensPool(c)
      PROVE  VaultsGrow /\ (StakeIsMade => StakeIsMade')
  <2>1. chain'.vault = chain.vault /\ chain'.staked = chain.staked
        /\ chain'.exists = chain.exists
    BY <1>0, <1>7 DEF FundsCurve, OpensPool, ChainType
  <2> QED BY <1>1, <2>1 DEF StakeIsMade, Exists
<1> QED BY <1>2, <1>3, <1>5, <1>6, <1>7 DEF Moves, ScriptMoves

\* So a stocked vault stays stocked when nobody converts.
StayStocked == \A t \in Mint : Stocked(t) => Stocked(t)'

LEMMA GrowingKeepsStock ==
  ASSUME LaunchTyped, VaultsGrow, chain' \in ChainType, UNCHANGED convertVars
  PROVE  StayStocked /\ \A t \in Mint : VaultBalance(t)' \in Nat
<1>0. UNCHANGED <<converted, emptied>>
  BY DEF convertVars
<1>1. ASSUME NEW t \in Mint
      PROVE  /\ VaultBalance(t)' \in Nat
             /\ VaultBalance(t) > 0 => VaultBalance(t)' > 0
  <2>1. /\ chain.vault[t] \in Nat /\ chain'.vault[t] \in Nat
        /\ converted[t] \in Int /\ VaultBalance(t) \in Nat
    BY DEF LaunchTyped, ChainType
  <2>2. chain'.vault[t] >= chain.vault[t]
    BY DEF VaultsGrow
  <2> QED BY <1>0, <2>1, <2>2 DEF VaultBalance
<1> QED BY <1>0, <1>1 DEF StayStocked, Stocked

\* A vault that is seeded was empty, and is not any more.
LEMMA SeedingFills ==
  ASSUME LaunchTyped, UNCHANGED convertVars, NEW t \in Mint, SeedsVault(t)
  PROVE  VaultBalance(t)' > 0
<1>1. VAULT_SEED[t] \in Nat \ {0} /\ chain.vault[t] \in Nat
      /\ converted[t] \in Int /\ VaultBalance(t) \in Nat
  BY DeploymentAssumption DEF LaunchTyped, ChainType
<1>2. chain'.vault[t] = chain.vault[t] + VAULT_SEED[t] /\ UNCHANGED converted
  BY DEF LaunchTyped, ChainType, SeedsVault, convertVars
<1> QED BY <1>1, <1>2 DEF VaultBalance

LEMMA MovesKeepSeeds ==
  ASSUME LaunchTyped, Moves, chain' \in ChainType, UNCHANGED convertVars, SeedsLast
  PROVE  SeedsLast'
<1>0. chain \in ChainType /\ UNCHANGED <<converted, emptied>>
  BY DEF LaunchTyped, convertVars
<1>1. ASSUME NEW t \in Mint, chain'.vault[t] = chain.vault[t],
             t \notin emptied, chain'.vault[t] > 0
      PROVE  VaultBalance(t)' > 0
  BY <1>0, <1>1 DEF SeedsLast, VaultBalance
<1>2. ASSUME NEW t \in Mint, t \notin emptied
      PROVE  chain'.vault[t] = chain.vault[t] \/ SeedsVault(t)
  <2>1. CASE TokensStay
    BY <2>1 DEF TokensStay
  <2>2. ASSUME NEW u \in Mint, MintsSupply(u) PROVE chain'.vault[t] = chain.vault[t]
    BY <1>0, <2>2 DEF MintsSupply, ChainType
  <2>3. ASSUME NEW u \in Mint, u # t, SeedsVault(u) \/ ReseedsVault(u)
        PROVE  chain'.vault[t] = chain.vault[t]
    <3>1. PICK n : chain' = [chain EXCEPT !.vault[u] = @ + n, !.admin[u] = @ - n]
      BY <2>3 DEF SeedsVault, ReseedsVault
    <3>2. chain'.vault = [chain.vault EXCEPT ![u] = @ + n]
      BY <1>0, <3>1 DEF ChainType
    <3> QED BY <1>0, <2>3, <3>2 DEF ChainType
  <2>4. CASE MakesStake
    BY <1>0, <2>4 DEF MakesStake, ChainType
  <2>5. ASSUME NEW c \in Token, FundsCurve(c) \/ OpensPool(c)
        PROVE  chain'.vault[t] = chain.vault[t]
    BY <1>0, <2>5 DEF FundsCurve, OpensPool, ChainType
  <2>6. ~ReseedsVault(t)
    BY <1>2 DEF ReseedsVault
  <2> QED BY <2>1, <2>2, <2>3, <2>4, <2>5, <2>6 DEF Moves, ScriptMoves
<1> QED BY <1>0, <1>1, <1>2, SeedingFills DEF SeedsLast

\* Where a task takes the script: it stops, it goes on to the next task, past a
\* vault only when that is seeded, or it finds no bonding-curve program.
Onward ==
  \/ script'.run # "running"
  \/ /\ script'.pc = script.pc + 1
     /\ \A t \in Mint : Plan[script.pc] = <<"seed_vault", t>> => Stocked(t)'
  \/ /\ script'.pc = Len(Plan)
     /\ script.pc \in 1..Len(Plan) /\ Plan[script.pc] = <<"bc_deployed", "">>

LEMMA OtherTask ==
  ASSUME NEW step, NEW u, At(step, u), step # "seed_vault",
         script'.pc = script.pc + 1
  PROVE  Onward
<1>1. Plan[script.pc] = <<step, u>>
  BY DEF At
<1>2. ASSUME NEW t PROVE Plan[script.pc] # <<"seed_vault", t>>
  BY <1>1
<1> QED BY <1>2 DEF Onward

LEMMA PassingOn ==
  ASSUME script \in ScriptType, Proceed, NEW step, NEW u, At(step, u),
         step # "seed_vault"
  PROVE  Onward
<1>1. script'.pc = script.pc + 1
  BY DEF Proceed, ScriptType
<1> QED BY <1>1, OtherTask

LEMMA ScriptGoesOn ==
  ASSUME LaunchTyped, ScriptStep, UNCHANGED pool, UNCHANGED convertVars
  PROVE  Onward
<1>0. chain \in ChainType /\ script \in ScriptType
  BY DEF LaunchTyped
<1>1. ASSUME script' = Idle PROVE Onward
  BY <1>1 DEF Idle, Onward
<1>2. CASE createMint
  <2>1. PICK t \in Mint :
          /\ At("mint", t)
          /\ \/ Proceed
             \/ script' = [script EXCEPT !.pc = @ + 1, !.created = @ \union {t}]
    BY <1>2 DEF createMint
  <2>2. script'.pc = script.pc + 1
    BY <1>0, <2>1 DEF Proceed, ScriptType
  <2> QED BY <2>1, <2>2, OtherTask
<1>3. CASE \/ initializeExtraAccountMetas \/ initializeAmmAdmin
           \/ initializeVaultConfig \/ initializeEpochState
           \/ initializeCarnageFund \/ createCarnageWsol
           \/ initializeWsolIntermediary \/ fundCarnageSol
  BY <1>0, <1>3, PassingOn
     DEF initializeExtraAccountMetas, initializeAmmAdmin,
     initializeVaultConfig, initializeEpochState, initializeCarnageFund,
     createCarnageWsol, initializeWsolIntermediary, fundCarnageSol, Ensure
<1>4. CASE \/ initializeMetadata \/ initializeWhitelistAuthority
           \/ whitelistAdminAccounts \/ whitelistConversionVaults
           \/ whitelistStakeVault \/ whitelistCarnageVaults
           \/ whitelistCurveVaults \/ burnMintAuthority \/ initializeBcAdmin
           \/ initializeCurve
  BY <1>0, <1>4, PassingOn
     DEF initializeMetadata, initializeWhitelistAuthority, whitelistAdminAccounts,
     whitelistConversionVaults, whitelistStakeVault, whitelistCarnageVaults,
     whitelistCurveVaults, burnMintAuthority, initializeBcAdmin, initializeCurve
<1>5. CASE launchGate \/ startCurve \/ initializeStakePool \/ fundCurve
  BY <1>0, <1>1, <1>5, PassingOn
     DEF launchGate, startCurve, initializeStakePool, fundCurve, Fail
<1>6. CASE needT22Accounts
  <2>1. /\ At("need_accounts", "")
        /\ \E b, f : script' = [script EXCEPT !.pc = @ + 1, !.need = b, !.source = f]
    BY <1>6 DEF needT22Accounts
  <2>2. script'.pc = script.pc + 1
    BY <1>0, <2>1 DEF ScriptType
  <2> QED BY <2>1, <2>2, OtherTask
<1>7. CASE mintSupply
  <2>1. PICK t \in Mint :
          /\ At("mint_supply", t)
          /\ \/ Proceed
             \/ \E v : script' = [script EXCEPT !.pc = @ + 1, !.source[t] = v]
    BY <1>7 DEF mintSupply
  <2>2. script'.pc = script.pc + 1
    BY <1>0, <2>1 DEF Proceed, ScriptType
  <2> QED BY <2>1, <2>2, OtherTask
<1>8. CASE seedVault
  <2>1. PICK t \in Mint :
          /\ At("seed_vault", t)
          /\ \/ script' = Idle
             \/ Proceed /\ VaultBalance(t) > 0 /\ UNCHANGED chain
             \/ Proceed /\ SeedsVault(t)
    BY <1>8 DEF seedVault, CanSend, SeedsVault, Fail, curveVars, tokens
  <2>2. CASE script' = Idle
    BY <1>1, <2>2
  <2>3. CASE Proceed /\ Stocked(t)'
    <3>1. script'.pc = script.pc + 1
      BY <1>0, <2>3 DEF Proceed, ScriptType
    <3>2. \A u \in Mint : Plan[script.pc] = <<"seed_vault", u>> => u = t
      BY <2>1 DEF At
    <3> QED BY <2>3, <3>1, <3>2 DEF Onward
  <2>4. ASSUME SeedsVault(t) PROVE Stocked(t)'
    BY <2>4, SeedingFills DEF Stocked
  <2>5. ASSUME VaultBalance(t) > 0, UNCHANGED chain PROVE Stocked(t)'
    BY <2>5 DEF Stocked, VaultBalance, convertVars
  <2> QED BY <2>1, <2>2, <2>3, <2>4, <2>5
<1>9. CASE checkBcDeployed
  <2>1. /\ script' = [script EXCEPT
                       !.pc = IF chain.bc_deployed THEN @ + 1 ELSE Len(Plan)]
        /\ At("bc_deployed", "")
    BY <1>9 DEF checkBcDeployed
  <2>2. script'.pc = script.pc + 1 \/ script'.pc = Len(Plan)
    BY <1>0, <2>1 DEF ScriptType
  <2>3. script.pc \in 1..Len(Plan) /\ Plan[script.pc] = <<"bc_deployed", "">>
    BY <2>1 DEF At
  <2> QED BY <2>1, <2>2, <2>3, OtherTask DEF Onward
<1>10. CASE writeManifest
  <2>1. \E run \in {"idle", "done"} : script' = [Idle EXCEPT !.run = run]
    BY <1>10 DEF writeManifest
  <2>2. script'.run # "running"
    BY <2>1 DEF Idle
  <2> QED BY <2>2 DEF Onward
<1> QED BY <1>2, <1>3, <1>4, <1>5, <1>6, <1>7, <1>8, <1>9, <1>10 DEF ScriptStep

\* Only one task makes a curve.
NoNewCurve == \A c \in Token : curve[c].status = "None" => curve'[c].status = "None"

LEMMA ScriptMakesCurves ==
  ASSUME CurveTypeOK, ScriptStep
  PROVE  NoNewCurve \/ (initializeCurve /\ UNCHANGED chain)
<1>1. CASE \/ createMint \/ initializeMetadata \/ initializeWhitelistAuthority
           \/ needT22Accounts \/ mintSupply \/ whitelistAdminAccounts
           \/ whitelistConversionVaults \/ whitelistStakeVault
           \/ whitelistCarnageVaults \/ whitelistCurveVaults
           \/ seedVault \/ burnMintAuthority \/ initializeStakePool
           \/ checkBcDeployed \/ launchGate \/ writeManifest
  <2>1. UNCHANGED curve
    BY <1>1 DEF createMint, initializeMetadata, initializeWhitelistAuthority,
       needT22Accounts, mintSupply, whitelistAdminAccounts,
       whitelistConversionVaults, whitelistStakeVault, whitelistCarnageVaults,
       whitelistCurveVaults, seedVault, burnMintAuthority, initializeStakePool,
       checkBcDeployed, launchGate, writeManifest, curveVars
  <2> QED BY <2>1 DEF NoNewCurve
<1>2. CASE \/ initializeExtraAccountMetas \/ initializeAmmAdmin
           \/ initializeVaultConfig \/ initializeEpochState
           \/ initializeCarnageFund \/ createCarnageWsol
           \/ initializeWsolIntermediary \/ fundCarnageSol
  BY <1>2 DEF initializeExtraAccountMetas, initializeAmmAdmin,
     initializeVaultConfig, initializeEpochState, initializeCarnageFund,
     createCarnageWsol, initializeWsolIntermediary, fundCarnageSol, Ensure,
     curveVars, NoNewCurve
<1>3. CASE initializeBcAdmin \/ fundCurve
  <2>1. UNCHANGED curve
    BY <1>3 DEF initializeBcAdmin, initialize_bc_admin, fundCurve, fund_curve, curveVars
  <2> QED BY <2>1 DEF NoNewCurve
<1>4. CASE startCurve
  <2>1. PICK c \in Token :
          \/ UNCHANGED curve
          \/ /\ curve[c].status = "Initialized"
             /\ \E s : curve' = [curve EXCEPT ![c] = s]
    BY <1>4 DEF startCurve, start_curve, curveVars
  <2> QED BY <2>1 DEF NoNewCurve, CurveTypeOK
<1>5. CASE initializeCurve
  BY <1>5 DEF initializeCurve
<1> QED BY <1>1, <1>2, <1>3, <1>4, <1>5 DEF ScriptStep

LEMMA GraduationMakesNoCurve ==
  ASSUME CurveTypeOK, GraduationStep
  PROVE  NoNewCurve
<1>1. CASE prepareTransition
  <2>1. UNCHANGED curve \/ \A c \in Token : curve[c].status = "Filled"
    BY <1>1 DEF prepareTransition, prepare_transition, curveVars
  <2> QED BY <2>1 DEF NoNewCurve
<1>2. CASE \/ SkipCompleted \/ MarkCompleted \/ verifyFilled \/ saveWithdrawn
           \/ createAmmPool \/ whitelistPoolVaults \/ seedConversionVault
           \/ burnWhitelistAuthority
  BY <1>2 DEF SkipCompleted, MarkCompleted, verifyFilled, saveWithdrawn,
     createAmmPool, whitelistPoolVaults, seedConversionVault,
     burnWhitelistAuthority, curveVars, NoNewCurve
<1>3. CASE withdrawSol \/ closeTokenVault \/ distributeTaxEscrow
  <2>1. UNCHANGED curve
    BY <1>3 DEF withdrawSol, withdraw_graduated_sol, closeTokenVault,
       close_token_vault, distributeTaxEscrow, distribute_tax_escrow, curveVars
  <2> QED BY <2>1 DEF NoNewCurve
<1> QED BY <1>1, <1>2, <1>3 DEF GraduationStep

\* The users and the clock.
LEMMA UsersArePermissionless == UserStep => Permissionless
  BY DEF UserStep, Elapse, Refund, Permissionless

\* What users do pays nobody from the launch's accounts: it withdraws nothing and
\* funds nothing.
LEMMA UsersLeaveTokens ==
  ASSUME Permissionless
  PROVE  UNCHANGED <<funded, withdrawn>>
  BY DEF Permissionless, Tick, purchase, sell, mark_failed, consolidate_for_refund,
     claim_refund, distribute_tax_escrow, tokens, payments

\* A step of the launch that is not a conversion, by who takes it.
ScriptsAndTrades ==
  \/ StartScript /\ UNCHANGED <<stops, gradVars>>
  \/ ScriptStep /\ UNCHANGED <<stops, gradVars>>
  \/ (ScriptDies \/ DeployBondingCurve) /\ UNCHANGED gradVars
  \/ UserStep /\ UNCHANGED <<hookVars, deployVars, gradVars>>
  \/ (StartGraduation \/ GraduationStep) /\ UNCHANGED <<script, stops>>
  \/ GraduationDies
  \/ transferAuthorities /\ UNCHANGED <<deployVars, gradVars>>
  \/ UNCHANGED launchVars

LEMMA LaunchSteps ==
  [LaunchNext]_launchVars =>
    \/ UserConverts /\ UNCHANGED <<hookVars, deployVars, gradVars>>
    \/ ScriptsAndTrades /\ UNCHANGED convertVars
  BY DEF LaunchNext, ScriptsAndTrades, launchVars

\* What the operator does, and crashes, leave the tokens and the curves alone.
LEMMA OperatorSteps ==
  ASSUME LaunchTyped,
         \/ StartScript /\ UNCHANGED <<stops, gradVars>>
         \/ (ScriptDies \/ DeployBondingCurve) /\ UNCHANGED gradVars
         \/ transferAuthorities /\ UNCHANGED <<deployVars, gradVars>>
         \/ UNCHANGED launchVars
  PROVE  /\ chain' \in ChainType /\ script' \in ScriptType /\ UNCHANGED gradVars
         /\ TokensStay /\ UNCHANGED <<curve, withdrawn, sol_vault>>
         /\ script' = script \/ script'.run # "running" \/ script'.pc = 1
<1>0. chain \in ChainType /\ script \in ScriptType
  BY DEF LaunchTyped
<1>1. CASE StartScript /\ UNCHANGED <<stops, gradVars>>
  <2>1. script' = [Idle EXCEPT !.run = "running"]
    BY <1>1 DEF StartScript
  <2>2. script' \in ScriptType
    BY <2>1, IdleTyped
  <2>3. script'.pc = 1
    BY <2>1 DEF Idle
  <2>4. UNCHANGED <<chain, funded, pool, curve, withdrawn, sol_vault, gradVars>>
    BY <1>1 DEF StartScript, curveVars, tokens, payments, balances, gradVars
  <2> QED BY <1>0, <2>2, <2>3, <2>4, UnchangedStays
<1>2. CASE ScriptDies /\ UNCHANGED gradVars
  <2>1. script' = Idle
    BY <1>2 DEF ScriptDies
  <2>2. script'.run # "running"
    BY <2>1 DEF Idle
  <2>3. UNCHANGED <<chain, funded, pool, curve, withdrawn, sol_vault>>
    BY <1>2 DEF ScriptDies, curveVars, tokens, payments, balances, gradVars
  <2> QED BY <1>0, <1>2, <2>1, <2>2, <2>3, UnchangedStays, IdleTyped
<1>3. CASE DeployBondingCurve /\ UNCHANGED gradVars
  <2>1. chain' = [chain EXCEPT !.bc_deployed = TRUE]
    BY <1>3 DEF DeployBondingCurve
  <2>2. chain' \in ChainType
    BY <1>0, <2>1 DEF ChainType
  <2>3. UNCHANGED <<script, funded, pool, curve, withdrawn, sol_vault>>
    BY <1>3 DEF DeployBondingCurve, curveVars, tokens, payments, balances, gradVars
  <2>4. TokensStay
    BY <1>0, <2>1, <2>3 DEF TokensStay, ChainType
  <2> QED BY <1>0, <1>3, <2>2, <2>3, <2>4
<1>4. CASE transferAuthorities /\ UNCHANGED <<deployVars, gradVars>>
  <2>1. UNCHANGED <<chain, script, funded, pool, curve, withdrawn, sol_vault>>
    BY <1>4 DEF transferAuthorities, transfer_bc_admin, deployVars, curveVars,
       tokens, payments, balances, gradVars
  <2> QED BY <1>0, <1>4, <2>1, UnchangedStays
<1>5. CASE UNCHANGED launchVars
  <2>1. UNCHANGED <<chain, script, funded, pool, curve, withdrawn, sol_vault>>
    BY <1>5 DEF launchVars, deployVars, curveVars, tokens, payments, balances, gradVars
  <2> QED BY <1>0, <1>5, <2>1, UnchangedStays DEF launchVars
<1> QED BY <1>1, <1>2, <1>3, <1>4, <1>5

LEMMA LaunchStepMoves ==
  ASSUME LaunchTyped, CurveInv, GraduationIsSeeded, ScriptsAndTrades,
         UNCHANGED convertVars
  PROVE  LaunchTyped' /\ Moves
<1>0. /\ chain \in ChainType /\ script \in ScriptType /\ grad \in ProcessType
      /\ file \in FileType /\ pool \in PoolType /\ overridden \subseteq Token
      /\ CurveTypeOK
  BY DEF LaunchTyped, CurveInv
<1> DEFINE RecordsTyped == /\ chain \in ChainType /\ script \in ScriptType
                           /\ grad \in ProcessType /\ file \in FileType
                           /\ pool \in PoolType /\ overridden \subseteq Token
<1> SUFFICES RecordsTyped' /\ Moves
  <2>1. ASSUME RecordsTyped', Moves PROVE LaunchTyped'
    <3>1. \A t \in Mint : VaultBalance(t)' \in Nat
      BY <2>1, MovesKeepVaults, GrowingKeepsStock
    <3> QED BY <2>1, <3>1 DEF LaunchTyped, convertVars
  <2> QED BY <2>1
<1>1. CASE \/ StartScript /\ UNCHANGED <<stops, gradVars>>
           \/ (ScriptDies \/ DeployBondingCurve) /\ UNCHANGED gradVars
           \/ transferAuthorities /\ UNCHANGED <<deployVars, gradVars>>
           \/ UNCHANGED launchVars
  BY <1>0, <1>1, OperatorSteps DEF gradVars, Moves, ScriptMoves
<1>2. CASE ScriptStep /\ UNCHANGED <<stops, gradVars>>
  BY <1>0, <1>2, ScriptStepMoves DEF gradVars, Moves
<1>3. CASE UserStep /\ UNCHANGED <<hookVars, deployVars, gradVars>>
  <2>1. UNCHANGED <<chain, script, grad, file, pool, overridden, funded>>
    BY <1>3, UsersArePermissionless, UsersLeaveTokens DEF deployVars, gradVars
  <2> QED BY <1>0, <2>1, UnchangedStays DEF Moves, ScriptMoves
<1>4. CASE StartGraduation /\ UNCHANGED <<script, stops>>
  <2>1. /\ UNCHANGED <<chain, script, file, pool, overridden, funded>>
        /\ grad' = [NotRunning EXCEPT !.on = TRUE, !.override = AmountLost]
    BY <1>4 DEF StartGraduation, curveVars, tokens
  <2>2. AmountLost \in BOOLEAN /\ 0 \in Nat
    BY DEF AmountLost
  <2>3. grad' \in ProcessType
    BY <1>0, <2>1, <2>2, SetProcessTyped
  <2> QED BY <1>0, <2>1, <2>3, UnchangedStays DEF Moves, ScriptMoves
<1>5. CASE GraduationStep /\ UNCHANGED <<script, stops>>
  <2>1. grad.on
    BY <1>5 DEF GraduationStep, SkipCompleted, MarkCompleted, verifyFilled,
       prepareTransition, withdrawSol, saveWithdrawn, closeTokenVault,
       createAmmPool, whitelistPoolVaults, seedConversionVault,
       distributeTaxEscrow, burnWhitelistAuthority, Now
  <2>2. \A t \in Mint : Stocked(t)
    BY <2>1 DEF GraduationIsSeeded, Seeded
  <2> QED BY <1>0, <1>5, <2>2, GraduationStepMoves DEF Moves, ScriptMoves
<1>6. CASE GraduationDies
  <2>1. /\ UNCHANGED <<chain, script, file, pool, overridden, funded>>
        /\ grad' = NotRunning
    BY <1>6 DEF GraduationDies, curveVars, tokens
  <2>2. grad' \in ProcessType
    BY <2>1 DEF NotRunning, Unknown, ProcessType
  <2> QED BY <1>0, <2>1, <2>2, UnchangedStays DEF Moves, ScriptMoves
<1> QED BY <1>1, <1>2, <1>3, <1>4, <1>5, <1>6 DEF ScriptsAndTrades

\* A conversion touches neither the scripts nor what they own; it takes from a
\* vault no more than there is, and all there is only from one it empties.
LEMMA ConversionMoves ==
  ASSUME LaunchTyped, UserConverts, UNCHANGED <<hookVars, deployVars, gradVars>>
  PROVE  /\ LaunchTyped'
         /\ UNCHANGED <<chain, script, grad, file, pool, overridden>>
         /\ UNCHANGED <<curve, funded, withdrawn>>
         /\ emptied \subseteq emptied'
         /\ \A t \in Mint :
              VaultBalance(t) > 0 => VaultBalance(t)' > 0 \/ t \in emptied'
<1>1. PICK u \in User, n \in Conversions, input \in Mint, output \in Mint :
        Convert(u, input, output, n)
  BY DEF UserConverts
<1>2. UNCHANGED <<chain, script, grad, file, pool, overridden>>
  BY DEF deployVars, gradVars
<1>3. UNCHANGED <<curve, funded, withdrawn>>
  BY <1>1 DEF Convert, payments, tokens
<1>4. PICK out : out = compute_output(input, output, n)
  OBVIOUS
<1>5. n \in Nat /\ out \in Nat /\ out > 0
  BY <1>1, <1>4, GraduationAssumption, OutputNat DEF Convert
<1>6. input # output
  BY <1>4, <1>5 DEF compute_output, Faction
<1>7. /\ VaultBalance(output) >= out
      /\ converted' = [converted EXCEPT ![input] = @ + n, ![output] = @ - out]
      /\ emptied' = IF VaultBalance(output) = out
                    THEN emptied \union {output} ELSE emptied
  BY <1>1, <1>4 DEF Convert
<1>8. /\ chain \in ChainType /\ script \in ScriptType /\ grad \in ProcessType
      /\ file \in FileType /\ pool \in PoolType /\ overridden \subseteq Token
      /\ converted \in [Mint -> Int] /\ emptied \subseteq Mint
      /\ \A t \in Mint : VaultBalance(t) \in Nat /\ chain.vault[t] \in Nat
  BY DEF LaunchTyped, ChainType
<1>9. /\ converted'[input] = converted[input] + n
      /\ converted'[output] = converted[output] - out
      /\ \A t \in Mint \ {input, output} : converted'[t] = converted[t]
      /\ converted' \in [Mint -> Int]
  BY <1>5, <1>6, <1>7, <1>8
<1>10. emptied' \subseteq Mint /\ emptied \subseteq emptied'
  BY <1>7, <1>8
<1>11. ASSUME NEW t \in Mint
       PROVE  /\ VaultBalance(t)' \in Nat
              /\ VaultBalance(t) > 0 => VaultBalance(t)' > 0 \/ t \in emptied'
  <2>0. VaultBalance(t)' = chain.vault[t] + converted'[t]
    BY <1>2 DEF VaultBalance
  <2>1. CASE t = input
    <3>1. VaultBalance(t)' = VaultBalance(t) + n
      BY <1>5, <1>8, <1>9, <2>0, <2>1 DEF VaultBalance
    <3> QED BY <1>5, <1>8, <3>1
  <2>2. CASE t = output
    <3>1. VaultBalance(t)' = VaultBalance(t) - out
      BY <1>5, <1>8, <1>9, <2>0, <2>2 DEF VaultBalance
    <3> QED BY <1>5, <1>7, <1>8, <2>2, <3>1
  <2>3. CASE t \notin {input, output}
    <3>1. VaultBalance(t)' = VaultBalance(t)
      BY <1>9, <2>0, <2>3 DEF VaultBalance
    <3> QED BY <1>8, <3>1
  <2> QED BY <2>1, <2>2, <2>3
<1> QED BY <1>2, <1>3, <1>8, <1>9, <1>10, <1>11 DEF LaunchTyped

\* Whoever passes a vault has seeded it.
LEMMA ScriptPassesSeeded ==
  ASSUME LaunchTyped, PassedAreSeeded, StayStocked, Onward,
         script.run = "running"
  PROVE  PassedAreSeeded'
<1>0. script.pc \in Nat
  BY DEF LaunchTyped, ScriptType
<1> SUFFICES ASSUME script'.run = "running", NEW i \in 1..script'.pc - 1, NEW t \in Mint,
                    Plan[i] = <<"seed_vault", t>>
             PROVE  Stocked(t)'
  BY DEF PassedAreSeeded
<1>1. ASSUME i \in 1..script.pc - 1 PROVE Stocked(t)'
  BY <1>1 DEF PassedAreSeeded, StayStocked
<1>2. CASE /\ script'.pc = script.pc + 1
           /\ \A u \in Mint : Plan[script.pc] = <<"seed_vault", u>> => Stocked(u)'
  <2>1. i \in 1..script.pc - 1 \/ i = script.pc
    BY <1>0, <1>2
  <2> QED BY <1>1, <1>2, <2>1
<1>3. CASE /\ script'.pc = Len(Plan)
           /\ script.pc \in 1..Len(Plan) /\ Plan[script.pc] = <<"bc_deployed", "">>
  <2>1. \A j \in script.pc..Len(Plan) : \A u : Plan[j] # <<"seed_vault", u>>
    BY <1>3, SeedingComesFirst
  <2>2. i \notin script.pc..Len(Plan)
    BY <2>1
  <2>3. i \in 1..script.pc - 1
    <3>1. Len(Plan) \in Nat
      BY PlanOrdered DEF PlanIsOrdered
    <3>2. i \in 1..Len(Plan) - 1
      BY <1>3
    <3>3. ~(script.pc <= i)
      BY <1>0, <2>2, <3>1, <3>2
    <3> QED BY <1>0, <3>1, <3>2, <3>3
  <2> QED BY <1>1, <2>3
<1> QED BY <1>2, <1>3 DEF Onward

LEMMA SeedingStep ==
  ASSUME LaunchTyped, CurveInv, SeedingInv, ScriptsAndTrades, UNCHANGED convertVars
  PROVE  SeedingInv'
<1>0. /\ PassedAreSeeded /\ CurvesAreSeeded /\ GraduationIsSeeded /\ StakeIsMade
      /\ SeedsLast /\ CurveTypeOK
  BY DEF SeedingInv, CurveInv
<1>1. Moves /\ chain' \in ChainType
  BY <1>0, LaunchStepMoves DEF LaunchTyped
<1>2. StayStocked /\ StakeIsMade' /\ SeedsLast'
  BY <1>0, <1>1, MovesKeepVaults, GrowingKeepsStock, MovesKeepSeeds
<1>3. Seeded => Seeded'
  BY <1>2 DEF StayStocked, Seeded
<1>4. ASSUME NoNewCurve PROVE CurvesAreSeeded'
  BY <1>0, <1>3, <1>4 DEF CurvesAreSeeded, NoNewCurve
<1>5. ASSUME UNCHANGED curve PROVE CurvesAreSeeded'
  BY <1>4, <1>5 DEF NoNewCurve
<1>6. ASSUME UNCHANGED script \/ script'.run # "running" \/ script'.pc = 1
      PROVE  PassedAreSeeded'
  BY <1>0, <1>2, <1>6 DEF PassedAreSeeded, StayStocked
<1>7. ASSUME grad'.on => grad.on PROVE GraduationIsSeeded'
  BY <1>0, <1>3, <1>7 DEF GraduationIsSeeded
<1>8. CASE \/ StartScript /\ UNCHANGED <<stops, gradVars>>
           \/ (ScriptDies \/ DeployBondingCurve) /\ UNCHANGED gradVars
           \/ transferAuthorities /\ UNCHANGED <<deployVars, gradVars>>
           \/ UNCHANGED launchVars
  <2>1. /\ UNCHANGED <<curve, gradVars>>
        /\ script' = script \/ script'.run # "running" \/ script'.pc = 1
    BY <1>8, OperatorSteps
  <2> QED BY <1>2, <1>5, <1>6, <1>7, <2>1 DEF SeedingInv, gradVars
<1>9. CASE ScriptStep /\ UNCHANGED <<stops, gradVars>>
  <2>1. script.run = "running"
    BY <1>9 DEF ScriptStep, createMint, initializeMetadata,
       initializeWhitelistAuthority, initializeExtraAccountMetas,
       initializeAmmAdmin, needT22Accounts, mintSupply, whitelistAdminAccounts,
       initializeVaultConfig, whitelistConversionVaults, seedVault,
       burnMintAuthority, initializeEpochState, initializeStakePool,
       whitelistStakeVault, initializeCarnageFund, createCarnageWsol,
       initializeWsolIntermediary, fundCarnageSol, whitelistCarnageVaults,
       checkBcDeployed, initializeBcAdmin, initializeCurve, whitelistCurveVaults,
       fundCurve, launchGate, startCurve, writeManifest, Ensure, At
  <2>2. PassedAreSeeded'
    BY <1>0, <1>2, <1>9, <2>1, ScriptGoesOn, ScriptPassesSeeded DEF gradVars
  <2>3. ASSUME initializeCurve, UNCHANGED chain PROVE CurvesAreSeeded'
    <3>1. PICK c \in Token : At("curve", c)
      BY <2>3 DEF initializeCurve
    <3>2. \A t \in Mint : \E i \in 1..script.pc - 1 : Plan[i] = <<"seed_vault", t>>
      BY <3>1, SeedingComesFirst DEF At
    <3>3. Seeded
      BY <1>0, <2>1, <3>2 DEF PassedAreSeeded, Seeded
    <3> QED BY <1>3, <3>3 DEF CurvesAreSeeded
  <2>4. CurvesAreSeeded'
    BY <1>0, <1>4, <1>9, <2>3, ScriptMakesCurves
  <2> QED BY <1>2, <1>7, <1>9, <2>2, <2>4 DEF SeedingInv, gradVars
<1>10. CASE UserStep /\ UNCHANGED <<hookVars, deployVars, gradVars>>
  <2>1. NoNewCurve
    BY <1>10, UsersArePermissionless, PermissionlessKeepsNone DEF NoNewCurve
  <2> QED BY <1>2, <1>4, <1>6, <1>7, <1>10, <2>1 DEF SeedingInv, gradVars, deployVars
<1>11. CASE StartGraduation /\ UNCHANGED <<script, stops>>
  <2>1. \E c \in Token : curve[c].status # "None"
    BY <1>11 DEF StartGraduation, CurvesFull, Token
  <2>2. Seeded'
    BY <1>0, <1>3, <2>1 DEF CurvesAreSeeded
  <2>3. UNCHANGED curve
    BY <1>11 DEF StartGraduation, curveVars
  <2> QED BY <1>2, <1>5, <1>6, <1>11, <2>2, <2>3 DEF SeedingInv, GraduationIsSeeded
<1>12. CASE GraduationStep /\ UNCHANGED <<script, stops>>
  <2>1. grad.on
    BY <1>12 DEF GraduationStep, SkipCompleted, MarkCompleted, verifyFilled,
       prepareTransition, withdrawSol, saveWithdrawn, closeTokenVault,
       createAmmPool, whitelistPoolVaults, seedConversionVault,
       distributeTaxEscrow, burnWhitelistAuthority, Now
  <2> QED BY <1>0, <1>2, <1>4, <1>6, <1>7, <1>12, <2>1, GraduationMakesNoCurve
          DEF SeedingInv
<1>13. CASE GraduationDies
  <2>1. UNCHANGED <<curve, script>> /\ ~grad'.on
    BY <1>13 DEF GraduationDies, curveVars, NotRunning
  <2> QED BY <1>2, <1>5, <1>6, <1>7, <2>1 DEF SeedingInv
<1> QED BY <1>8, <1>9, <1>10, <1>11, <1>12, <1>13 DEF ScriptsAndTrades

LEMMA ConversionKeepsSeeding ==
  ASSUME LaunchTyped, SeedingInv, UserConverts,
         UNCHANGED <<hookVars, deployVars, gradVars>>
  PROVE  SeedingInv'
<1>0. /\ PassedAreSeeded /\ CurvesAreSeeded /\ GraduationIsSeeded /\ StakeIsMade
      /\ SeedsLast
  BY DEF SeedingInv
<1>1. /\ UNCHANGED <<chain, script, grad, curve>>
      /\ emptied \subseteq emptied'
      /\ \A t \in Mint :
           VaultBalance(t) > 0 => VaultBalance(t)' > 0 \/ t \in emptied'
  BY ConversionMoves
<1>2. \A t \in Mint : Stocked(t) => Stocked(t)'
  BY <1>1 DEF Stocked
<1>3. PassedAreSeeded' /\ CurvesAreSeeded' /\ GraduationIsSeeded' /\ StakeIsMade'
  BY <1>0, <1>1, <1>2
     DEF PassedAreSeeded, CurvesAreSeeded, GraduationIsSeeded, Seeded, StakeIsMade,
         Exists
<1>4. SeedsLast'
  BY <1>0, <1>1 DEF SeedsLast
<1> QED BY <1>3, <1>4 DEF SeedingInv
--------------------------------------------------------------------------------
(***************************************************************************)
(* Tokens are where they belong.                                           *)
(***************************************************************************)
OnCurve(t) == IF t \in Token THEN funded[t] ELSE 0
InPool(t) == IF t \in Token THEN pool[t].tokens ELSE 0
InStake(t) == IF t = "PROFIT" THEN chain.staked ELSE 0

\* The places of one mint's tokens.
Placed(t) ==
  /\ chain.supply[t] \in {0, TOTAL_SUPPLY[t]}
  /\ t \notin emptied => chain.vault[t] \in {0, VAULT_SEED[t]}
  /\ OnCurve(t) \in {0, TARGET_TOKENS}
  /\ InPool(t) \in {0, GRADUATION_POOL_SEED_TOKEN}
  /\ InStake(t) \in {0, MINIMUM_STAKE}
  /\ chain.supply[t]
       = chain.admin[t] + chain.vault[t] + OnCurve(t) + InPool(t) + InStake(t)

LEMMA PlacedIsPlaced == TokensArePlaced <=> \A t \in Mint : Placed(t)
  BY DEF TokensArePlaced, Placed, OnCurve, InPool, InStake

\* The amounts of one mint.
LEMMA PlacesTyped ==
  ASSUME LaunchTyped, CurveTypeOK, NEW t \in Mint
  PROVE  /\ chain.supply[t] \in Nat /\ chain.admin[t] \in Nat
         /\ chain.vault[t] \in Nat /\ OnCurve(t) \in Nat /\ InPool(t) \in Nat
         /\ InStake(t) \in Nat
         /\ TOTAL_SUPPLY[t] \in Nat \ {0} /\ VAULT_SEED[t] \in Nat \ {0}
         /\ TARGET_TOKENS \in Nat \ {0} /\ GRADUATION_POOL_SEED_TOKEN \in Nat \ {0}
         /\ MINIMUM_STAKE \in Nat \ {0}
  BY DeploymentAssumption, BondingCurveAssumption, GraduationAssumption
     DEF LaunchTyped, ChainType, PoolType, CurveTypeOK, OnCurve, InPool, InStake

\* Nothing moves for this mint.
LEMMA SamePlaces ==
  ASSUME NEW t, Placed(t), UNCHANGED emptied,
         chain'.supply[t] = chain.supply[t], chain'.admin[t] = chain.admin[t],
         chain'.vault[t] = chain.vault[t], OnCurve(t)' = OnCurve(t),
         InPool(t)' = InPool(t), InStake(t)' = InStake(t)
  PROVE  Placed(t)'
  BY DEF Placed

LEMMA NothingAdds ==
  ASSUME NEW a \in Nat, NEW b \in Nat, NEW c \in Nat, NEW d \in Nat, NEW e \in Nat,
         0 = a + b + c + d + e
  PROVE  b = 0 /\ c = 0 /\ d = 0 /\ e = 0
  OBVIOUS

LEMMA MovesKeepPlaced ==
  ASSUME LaunchTyped, CurveTypeOK, CurveExtra, StakeIsMade, SeedsLast, Moves,
         UNCHANGED emptied,
         \A t \in Mint : Placed(t), NEW t \in Mint
  PROVE  Placed(t)'
<1>0. chain \in ChainType /\ pool \in PoolType /\ funded \in [Token -> Nat]
  BY DEF LaunchTyped, CurveTypeOK
<1>1. Placed(t)
  OBVIOUS
<1>2. /\ chain.supply[t] \in Nat /\ chain.admin[t] \in Nat
      /\ chain.vault[t] \in Nat /\ OnCurve(t) \in Nat /\ InPool(t) \in Nat
      /\ InStake(t) \in Nat
      /\ TOTAL_SUPPLY[t] \in Nat \ {0} /\ VAULT_SEED[t] \in Nat \ {0}
      /\ TARGET_TOKENS \in Nat \ {0} /\ GRADUATION_POOL_SEED_TOKEN \in Nat \ {0}
      /\ MINIMUM_STAKE \in Nat \ {0}
  BY PlacesTyped
<1>3. CASE TokensStay
  BY <1>1, <1>3, SamePlaces DEF TokensStay, OnCurve, InPool, InStake
<1>4. ASSUME NEW u \in Mint, MintsSupply(u) PROVE Placed(t)'
  <2>1. /\ chain'.vault = chain.vault /\ chain'.staked = chain.staked
        /\ chain'.supply[u] = TOTAL_SUPPLY[u] /\ chain'.admin[u] = TOTAL_SUPPLY[u]
        /\ \A v \in Mint \ {u} : /\ chain'.supply[v] = chain.supply[v]
                                 /\ chain'.admin[v] = chain.admin[v]
        /\ UNCHANGED <<funded, pool>>
    BY <1>0, <1>4 DEF MintsSupply, ChainType
  <2>2. OnCurve(t)' = OnCurve(t) /\ InPool(t)' = InPool(t) /\ InStake(t)' = InStake(t)
    BY <2>1 DEF OnCurve, InPool, InStake
  <2>3. CASE t # u
    BY <1>1, <2>1, <2>2, <2>3, SamePlaces
  <2>4. CASE t = u
    <3>1. chain.supply[t] = 0
      BY <1>1, <1>2, <1>4, <2>4 DEF MintsSupply, Placed
    <3>2. chain.vault[t] = 0 /\ OnCurve(t) = 0 /\ InPool(t) = 0 /\ InStake(t) = 0
      <4>1. 0 = chain.admin[t] + chain.vault[t] + OnCurve(t) + InPool(t) + InStake(t)
        BY <1>1, <3>1 DEF Placed
      <4> QED BY <1>2, <4>1, NothingAdds, Zenon
    <3> QED BY <1>2, <2>1, <2>2, <2>4, <3>2 DEF Placed
  <2> QED BY <2>3, <2>4
<1>5. ASSUME NEW u \in Mint, SeedsVault(u) PROVE Placed(t)'
  <2>1. /\ chain'.supply = chain.supply /\ chain'.staked = chain.staked
        /\ chain'.vault[u] = chain.vault[u] + VAULT_SEED[u]
        /\ chain'.admin[u] = chain.admin[u] - VAULT_SEED[u]
        /\ \A v \in Mint \ {u} : /\ chain'.vault[v] = chain.vault[v]
                                 /\ chain'.admin[v] = chain.admin[v]
        /\ UNCHANGED <<funded, pool>>
    BY <1>0, <1>5 DEF SeedsVault, ChainType
  <2>2. OnCurve(t)' = OnCurve(t) /\ InPool(t)' = InPool(t) /\ InStake(t)' = InStake(t)
    BY <2>1 DEF OnCurve, InPool, InStake
  <2>3. CASE t # u
    BY <1>1, <2>1, <2>2, <2>3, SamePlaces
  <2>4. CASE t = u
    <3>1. t \notin emptied => chain.vault[t] = 0
      BY <1>2, <1>5, <2>4 DEF SeedsVault, SeedsLast
    <3>2. t \notin emptied => chain'.vault[t] = VAULT_SEED[t]
      BY <1>2, <2>1, <2>4, <3>1
    <3>3. /\ chain'.vault[t] = chain.vault[t] + VAULT_SEED[t]
          /\ chain'.admin[t] = chain.admin[t] - VAULT_SEED[t]
      BY <2>1, <2>4
    <3>4. chain'.admin[t] + chain'.vault[t] = chain.admin[t] + chain.vault[t]
      BY <1>2, <3>3
    <3>5. chain'.admin[t] \in Int /\ chain'.vault[t] \in Int
      BY <1>2, <3>3
    <3> QED BY <1>1, <1>2, <2>1, <2>2, <3>2, <3>4, <3>5 DEF Placed
  <2> QED BY <2>3, <2>4
<1>6. ASSUME MakesStake PROVE Placed(t)'
  <2>1. /\ chain'.supply = chain.supply /\ chain'.vault = chain.vault
        /\ chain'.staked = MINIMUM_STAKE
        /\ chain'.admin["PROFIT"] = chain.admin["PROFIT"] - MINIMUM_STAKE
        /\ \A v \in Mint \ {"PROFIT"} : chain'.admin[v] = chain.admin[v]
        /\ UNCHANGED <<funded, pool>>
    <3>1. "PROFIT" \in Mint
      BY DEF Mint
    <3> QED BY <1>0, <1>6, <3>1 DEF MakesStake, ChainType
  <2>2. OnCurve(t)' = OnCurve(t) /\ InPool(t)' = InPool(t)
    BY <2>1 DEF OnCurve, InPool
  <2>3. CASE t # "PROFIT"
    <3>1. InStake(t)' = InStake(t)
      BY <2>3 DEF InStake
    <3> QED BY <1>1, <2>1, <2>2, <2>3, <3>1, SamePlaces
  <2>4. CASE t = "PROFIT"
    <3>1. InStake(t) = 0 /\ InStake(t)' = MINIMUM_STAKE
      BY <1>6, <2>1, <2>4 DEF InStake, MakesStake, StakeIsMade
    <3> QED BY <1>1, <1>2, <2>1, <2>2, <2>4, <3>1 DEF Placed
  <2> QED BY <2>3, <2>4
<1>7. ASSUME NEW c \in Token, FundsCurve(c) PROVE Placed(t)'
  <2>0. c \in Mint
    BY DEF Token, Mint
  <2>1. /\ chain'.supply = chain.supply /\ chain'.vault = chain.vault
        /\ chain'.staked = chain.staked
        /\ chain'.admin[c] = chain.admin[c] - TARGET_TOKENS
        /\ \A v \in Mint \ {c} : chain'.admin[v] = chain.admin[v]
        /\ funded'[c] = funded[c] + TARGET_TOKENS
        /\ \A d \in Token \ {c} : funded'[d] = funded[d]
        /\ UNCHANGED pool
    BY <1>0, <1>7, <2>0 DEF FundsCurve, ChainType, Plus
  <2>2. InPool(t)' = InPool(t) /\ InStake(t)' = InStake(t)
    BY <2>1 DEF InPool, InStake
  <2>3. CASE t # c
    <3>1. OnCurve(t)' = OnCurve(t)
      BY <2>1, <2>3 DEF OnCurve
    <3> QED BY <1>1, <2>1, <2>2, <2>3, <3>1, SamePlaces
  <2>4. CASE t = c
    <3>1. funded[c] = 0
      BY <1>0, <1>7 DEF FundsCurve, CurveExtra, VaultUntouched
    <3>2. OnCurve(t) = 0 /\ OnCurve(t)' = TARGET_TOKENS
      BY <1>2, <2>1, <2>4, <3>1 DEF OnCurve
    <3> QED BY <1>1, <1>2, <2>1, <2>2, <2>4, <3>2 DEF Placed
  <2> QED BY <2>3, <2>4
<1>8. ASSUME NEW c \in Token, OpensPool(c) PROVE Placed(t)'
  <2>0. c \in Mint
    BY DEF Token, Mint
  <2>1. /\ chain'.supply = chain.supply /\ chain'.vault = chain.vault
        /\ chain'.staked = chain.staked
        /\ chain'.admin[c] = chain.admin[c] - GRADUATION_POOL_SEED_TOKEN
        /\ \A v \in Mint \ {c} : chain'.admin[v] = chain.admin[v]
        /\ pool'[c].tokens = GRADUATION_POOL_SEED_TOKEN
        /\ \A d \in Token \ {c} : pool'[d] = pool[d]
        /\ UNCHANGED funded
    BY <1>0, <1>8, <2>0 DEF OpensPool, ChainType, PoolType
  <2>2. OnCurve(t)' = OnCurve(t) /\ InStake(t)' = InStake(t)
    BY <2>1 DEF OnCurve, InStake
  <2>3. CASE t # c
    <3>1. InPool(t)' = InPool(t)
      BY <2>1, <2>3 DEF InPool
    <3> QED BY <1>1, <2>1, <2>2, <2>3, <3>1, SamePlaces
  <2>4. CASE t = c
    <3>1. InPool(t) = 0 /\ InPool(t)' = GRADUATION_POOL_SEED_TOKEN
      BY <1>2, <1>8, <2>1, <2>4 DEF InPool, OpensPool
    <3> QED BY <1>1, <1>2, <2>1, <2>2, <2>4, <3>1 DEF Placed
  <2> QED BY <2>3, <2>4
<1>9. ASSUME NEW u \in Mint, ReseedsVault(u) PROVE Placed(t)'
  <2>1. PICK n \in Nat : n = GraduationSeed(u)
    BY GraduationSeedNat
  <2>2. /\ chain'.supply = chain.supply /\ chain'.staked = chain.staked
        /\ chain'.vault[u] = chain.vault[u] + n
        /\ chain'.admin[u] = chain.admin[u] - n
        /\ \A v \in Mint \ {u} : /\ chain'.vault[v] = chain.vault[v]
                                 /\ chain'.admin[v] = chain.admin[v]
        /\ UNCHANGED <<funded, pool>>
    BY <1>0, <1>9, <2>1 DEF ReseedsVault, ChainType
  <2>3. OnCurve(t)' = OnCurve(t) /\ InPool(t)' = InPool(t) /\ InStake(t)' = InStake(t)
    BY <2>2 DEF OnCurve, InPool, InStake
  <2>4. CASE t # u
    BY <1>1, <2>2, <2>3, <2>4, SamePlaces
  <2>5. CASE t = u
    <3>1. chain'.admin[t] + chain'.vault[t] = chain.admin[t] + chain.vault[t]
      BY <1>2, <2>2, <2>5
    <3>2. chain'.admin[t] \in Int /\ chain'.vault[t] \in Int
      BY <1>2, <2>2, <2>5
    <3>3. t \in emptied'
      BY <1>9, <2>5 DEF ReseedsVault
    <3> QED BY <1>1, <1>2, <2>2, <2>3, <3>1, <3>2, <3>3 DEF Placed
  <2> QED BY <2>4, <2>5
<1> QED BY <1>3, <1>4, <1>5, <1>6, <1>7, <1>8, <1>9 DEF Moves, ScriptMoves
--------------------------------------------------------------------------------
(***************************************************************************)
(* The amount a withdrawal brought, from the process to the file to the    *)
(* pool.                                                                   *)
(***************************************************************************)
Net(c) == withdrawn[c] - TX_FEE

\* What has been done in a step is not on record yet.
WorkIsPending == grad.on /\ grad.phase # "exec" => grad.step \notin file.completed
InHand(c) ==
  grad.on /\ grad.phase = "save" /\ Steps[grad.step] = <<"withdraw_sol", c>> =>
    withdrawn[c] > 0 /\ grad.got = saturating_sub(withdrawn[c], TX_FEE)
OnFile(c) == file.withdrawn[c] > 0 => withdrawn[c] > 0 /\ file.withdrawn[c] = Net(c)
AtValue(c) ==
  pool[c].tokens > 0 /\ c \notin overridden =>
    withdrawn[c] > 0 /\ pool[c].sol = Net(c)
AmountsInv == WorkIsPending /\ \A c \in Token : InHand(c) /\ OnFile(c) /\ AtValue(c)

\* A step that moves no amount.
LEMMA SameAmounts ==
  ASSUME AmountsInv, UNCHANGED <<withdrawn, file, pool, overridden>>,
         \/ UNCHANGED grad
         \/ ~grad'.on
         \/ grad'.phase = "exec"
         \/ /\ grad'.phase \in {"mark", "send"} /\ grad'.step = grad.step
            /\ grad.step \notin file.completed
  PROVE  AmountsInv'
<1>1. WorkIsPending'
  BY DEF AmountsInv, WorkIsPending
<1>2. ASSUME NEW c \in Token PROVE InHand(c)' /\ OnFile(c)' /\ AtValue(c)'
  BY DEF AmountsInv, InHand, OnFile, AtValue, Net
<1> QED BY <1>1, <1>2 DEF AmountsInv

LEMMA WorkedAmounts ==
  ASSUME grad \in ProcessType, AmountsInv, NEW step, NEW t, NEW phase,
         Now(step, t, phase), Worked \/ Abort \/ UNCHANGED grad,
         UNCHANGED <<withdrawn, file, pool, overridden>>
  PROVE  AmountsInv'
<1>1. CASE Worked
  <2>1. grad'.phase = "mark" /\ grad'.step = grad.step
    BY <1>1 DEF Worked, ProcessType
  <2> QED BY <2>1, SameAmounts DEF Now
<1>2. CASE Abort
  BY <1>2, SameAmounts DEF Abort, NotRunning
<1>3. CASE UNCHANGED grad
  BY <1>3, SameAmounts
<1> QED BY <1>1, <1>2, <1>3

LEMMA GraduationKeepsAmounts ==
  ASSUME LaunchTyped, CurveTypeOK, CurveExtra, AmountsInv, GraduationStep
  PROVE  AmountsInv'
<1>0. /\ grad \in ProcessType /\ file \in FileType /\ pool \in PoolType
      /\ overridden \subseteq Token /\ withdrawn \in [Token -> Nat]
      /\ TX_FEE \in Nat /\ RENT \in Nat
  BY BondingCurveAssumption, GraduationAssumption DEF LaunchTyped, CurveTypeOK
<1>1. CASE SkipCompleted
  <2>1. grad.phase = "exec"
    BY <1>1 DEF SkipCompleted, AmountsInv, WorkIsPending
  <2>2. grad'.phase = "exec"
    BY <1>0, <1>1, <2>1 DEF SkipCompleted, ProcessType
  <2> QED BY <1>1, <2>2, SameAmounts DEF SkipCompleted, curveVars, payments
<1>2. CASE MarkCompleted
  <2>1. grad'.phase = "exec"
    BY <1>2 DEF MarkCompleted, NotRunning
  <2>2. file'.withdrawn = file.withdrawn
    BY <1>0, <1>2 DEF MarkCompleted, FileType
  <2>3. UNCHANGED <<withdrawn, pool, overridden>>
    BY <1>2 DEF MarkCompleted, curveVars, payments
  <2> QED BY <2>1, <2>2, <2>3
          DEF AmountsInv, WorkIsPending, InHand, OnFile, AtValue, Net
<1>3. CASE verifyFilled \/ burnWhitelistAuthority \/ whitelistPoolVaults
  BY <1>0, <1>3, WorkedAmounts
     DEF verifyFilled, burnWhitelistAuthority, whitelistPoolVaults, curveVars, payments
<1>4. CASE seedConversionVault
  <2>1. \/ Worked \/ Abort
        \/ grad' = [grad EXCEPT !.seed = @ + 1]
    BY <1>4 DEF seedConversionVault
  <2>2. UNCHANGED <<withdrawn, file, pool, overridden>>
    BY <1>4 DEF seedConversionVault, curveVars, payments
  <2>3. CASE grad' = [grad EXCEPT !.seed = @ + 1]
    <3>1. grad'.phase = "exec"
      BY <1>0, <1>4, <2>3 DEF seedConversionVault, Now, ProcessType
    <3> QED BY <2>2, <3>1, SameAmounts
  <2> QED BY <1>0, <1>4, <2>1, <2>2, <2>3, WorkedAmounts DEF seedConversionVault
<1>5. CASE prepareTransition
  BY <1>0, <1>5, WorkedAmounts
     DEF prepareTransition, prepare_transition, curveVars, payments
<1>6. CASE closeTokenVault
  BY <1>0, <1>6, WorkedAmounts
     DEF closeTokenVault, close_token_vault, curveVars, payments
<1>7. CASE withdrawSol
  <2>1. PICK c \in Token :
          /\ Now("withdraw_sol", c, "exec")
          /\ IF sol_vault[c] <= RENT THEN Worked /\ UNCHANGED curveVars
             ELSE /\ withdraw_graduated_sol("deployer", c)
                  /\ grad' = [grad EXCEPT
                        !.phase = "save",
                        !.got = saturating_sub(sol_vault[c] - RENT, TX_FEE)]
          /\ UNCHANGED <<file, pool, overridden>>
    BY <1>7 DEF withdrawSol
  <2>2. CASE Worked /\ UNCHANGED curveVars
    BY <1>0, <2>1, <2>2, WorkedAmounts DEF curveVars, payments
  <2>3. CASE /\ ~(sol_vault[c] <= RENT)
             /\ withdraw_graduated_sol("deployer", c)
             /\ grad' = [grad EXCEPT
                   !.phase = "save",
                   !.got = saturating_sub(sol_vault[c] - RENT, TX_FEE)]
    <3>1. sol_vault[c] \in Nat /\ withdrawn[c] = 0
      BY <1>0, <2>3 DEF CurveTypeOK, CurveExtra, WithdrawnOnce
    <3>2. /\ withdrawn'[c] = withdrawn[c] + Spare(sol_vault[c])
          /\ \A d \in Token \ {c} : withdrawn'[d] = withdrawn[d]
      BY <1>0, <2>3 DEF withdraw_graduated_sol, Plus
    <3>3. Spare(sol_vault[c]) = sol_vault[c] - RENT
      BY <1>0, <2>3, <3>1 DEF Spare, saturating_sub
    <3>4. withdrawn'[c] = sol_vault[c] - RENT /\ withdrawn'[c] > 0
      BY <1>0, <2>3, <3>1, <3>2, <3>3
    <3>5. /\ grad'.phase = "save" /\ grad'.step = grad.step
          /\ grad'.got = saturating_sub(sol_vault[c] - RENT, TX_FEE)
      BY <1>0, <2>3 DEF ProcessType
    <3>6. grad.step \notin file.completed /\ Steps[grad.step] = <<"withdraw_sol", c>>
      BY <2>1 DEF Now
    <3>7. WorkIsPending'
      BY <2>1, <3>5, <3>6 DEF WorkIsPending
    <3>8. ASSUME NEW d \in Token PROVE InHand(d)' /\ OnFile(d)' /\ AtValue(d)'
      <4>1. CASE d # c
        <5>1. Steps[grad.step] # <<"withdraw_sol", d>>
          BY <3>6, <4>1
        <5>2. withdrawn'[d] = withdrawn[d]
          BY <3>2, <4>1
        <5> QED BY <2>1, <3>5, <5>1, <5>2 DEF AmountsInv, InHand, OnFile, AtValue, Net
      <4>2. CASE d = c
        <5>1. InHand(c)'
          BY <3>4, <3>5 DEF InHand
        <5>2. ~(file.withdrawn[c] > 0) /\ ~(pool[c].tokens > 0 /\ c \notin overridden)
          BY <3>1 DEF AmountsInv, OnFile, AtValue
        <5> QED BY <2>1, <4>2, <5>1, <5>2 DEF OnFile, AtValue
      <4> QED BY <4>1, <4>2
    <3> QED BY <3>7, <3>8 DEF AmountsInv
  <2> QED BY <2>1, <2>2, <2>3
<1>8. CASE saveWithdrawn
  <2>1. PICK c \in Token :
          /\ Now("withdraw_sol", c, "save")
          /\ file' = [file EXCEPT !.withdrawn[c] = grad.got]
          /\ Worked
          /\ UNCHANGED <<withdrawn, pool, overridden>>
    BY <1>8 DEF saveWithdrawn, curveVars, payments
  <2>2. /\ file'.withdrawn[c] = grad.got /\ file'.completed = file.completed
        /\ \A d \in Token \ {c} : file'.withdrawn[d] = file.withdrawn[d]
    BY <1>0, <2>1 DEF FileType
  <2>3. grad'.phase = "mark" /\ grad'.step = grad.step
    BY <1>0, <2>1 DEF Worked, ProcessType
  <2>4. WorkIsPending'
    BY <2>1, <2>2, <2>3 DEF Now, WorkIsPending
  <2>5. ASSUME NEW d \in Token PROVE InHand(d)' /\ OnFile(d)' /\ AtValue(d)'
    <3>1. InHand(d)' /\ AtValue(d)'
      BY <2>1, <2>3 DEF InHand, AtValue, AmountsInv, Net
    <3>2. CASE d # c
      BY <2>1, <2>2, <3>1, <3>2 DEF OnFile, AmountsInv, Net
    <3>3. CASE d = c
      <4>1. withdrawn[c] > 0 /\ grad.got = saturating_sub(withdrawn[c], TX_FEE)
        BY <2>1 DEF Now, AmountsInv, InHand
      <4>2. grad.got > 0 => grad.got = withdrawn[c] - TX_FEE
        BY <1>0, <4>1 DEF saturating_sub
      <4> QED BY <2>1, <2>2, <3>1, <3>3, <4>1, <4>2 DEF OnFile, Net
    <3> QED BY <3>2, <3>3
  <2> QED BY <2>4, <2>5 DEF AmountsInv
<1>9. CASE createAmmPool
  <2>1. PICK c \in Token :
          /\ Now("create_sol_pool", c, "exec")
          /\ \/ /\ Worked \/ Abort \/ grad' = [grad EXCEPT !.wsol = TRUE]
                /\ UNCHANGED <<pool, overridden>>
             \/ /\ resolvePoolSeedSol(c) # Unknown
                /\ pool' = [pool EXCEPT ![c] =
                     [sol |-> resolvePoolSeedSol(c),
                      tokens |-> GRADUATION_POOL_SEED_TOKEN]]
                /\ overridden' = IF grad.override THEN overridden \union {c}
                                 ELSE overridden
                /\ Worked
          /\ UNCHANGED <<withdrawn, file>>
    BY <1>9 DEF createAmmPool, curveVars, payments
  <2>2. CASE (Worked \/ Abort) /\ UNCHANGED <<pool, overridden>>
    BY <1>0, <2>1, <2>2, WorkedAmounts
  <2>3. CASE grad' = [grad EXCEPT !.wsol = TRUE] /\ UNCHANGED <<pool, overridden>>
    <3>1. grad'.phase = "exec"
      BY <1>0, <2>1, <2>3 DEF Now, ProcessType
    <3> QED BY <2>1, <2>3, <3>1, SameAmounts
  <2>4. CASE /\ resolvePoolSeedSol(c) # Unknown
             /\ pool' = [pool EXCEPT ![c] =
                  [sol |-> resolvePoolSeedSol(c),
                   tokens |-> GRADUATION_POOL_SEED_TOKEN]]
             /\ overridden' = IF grad.override THEN overridden \union {c}
                              ELSE overridden
             /\ Worked
    <3>1. grad'.phase = "mark" /\ grad'.step = grad.step
      BY <1>0, <2>4 DEF Worked, ProcessType
    <3>2. WorkIsPending'
      BY <2>1, <3>1 DEF Now, WorkIsPending
    <3>3. ASSUME NEW d \in Token PROVE InHand(d)' /\ OnFile(d)'
      BY <2>1, <3>1 DEF InHand, OnFile, AmountsInv, Net
    <3>4. pool'[c].sol = resolvePoolSeedSol(c)
      BY <1>0, <2>4 DEF PoolType
    <3>5. AtValue(c)'
      <4>1. CASE grad.override
        BY <2>4, <4>1 DEF AtValue
      <4>2. CASE ~grad.override
        <5>1. /\ resolvePoolSeedSol(c) = file.withdrawn[c]
              /\ file.withdrawn[c] >= MIN_POOL_SEED_SOL
          BY <1>0, <2>4, <4>2, GraduationAssumption
             DEF resolvePoolSeedSol, FileType
        <5>2. file.withdrawn[c] > 0
          BY <1>0, <5>1, GraduationAssumption DEF FileType
        <5>3. withdrawn[c] > 0 /\ file.withdrawn[c] = Net(c)
          BY <5>2 DEF AmountsInv, OnFile
        <5> QED BY <2>1, <3>4, <5>1, <5>3 DEF AtValue, Net
      <4> QED BY <4>1, <4>2
    <3>6. ASSUME NEW d \in Token \ {c} PROVE AtValue(d)'
      <4>1. pool'[d] = pool[d] /\ (d \notin overridden' => d \notin overridden)
        BY <1>0, <2>4 DEF PoolType
      <4> QED BY <2>1, <4>1 DEF AmountsInv, AtValue, Net
    <3> QED BY <3>2, <3>3, <3>5, <3>6 DEF AmountsInv
  <2> QED BY <2>1, <2>2, <2>3, <2>4
<1>10. CASE distributeTaxEscrow
  <2>1. PICK c \in Token, phase \in {"exec", "send"} :
          /\ Now("distribute_tax_escrow", c, phase)
          /\ Worked \/ Abort \/ grad' = [grad EXCEPT !.phase = "send"]
    BY <1>10 DEF distributeTaxEscrow
  <2>2. UNCHANGED <<withdrawn, file, pool, overridden>>
    BY <1>10 DEF distributeTaxEscrow, distribute_tax_escrow, curveVars, payments
  <2>3. CASE grad' = [grad EXCEPT !.phase = "send"]
    <3>1. grad'.phase = "send" /\ grad'.step = grad.step
      BY <1>0, <2>3 DEF ProcessType
    <3> QED BY <2>1, <2>2, <3>1, SameAmounts DEF Now
  <2> QED BY <1>0, <2>1, <2>2, <2>3, WorkedAmounts
<1> QED BY <1>1, <1>2, <1>3, <1>4, <1>5, <1>6, <1>7, <1>8, <1>9, <1>10
        DEF GraduationStep

LEMMA ScriptLeavesAmounts ==
  ASSUME ScriptStep
  PROVE  UNCHANGED withdrawn
<1>1. CASE \/ createMint \/ initializeMetadata \/ initializeWhitelistAuthority
           \/ needT22Accounts \/ mintSupply \/ whitelistAdminAccounts
           \/ whitelistConversionVaults \/ whitelistStakeVault
           \/ whitelistCarnageVaults \/ whitelistCurveVaults
           \/ seedVault \/ burnMintAuthority \/ initializeStakePool
           \/ checkBcDeployed \/ launchGate \/ writeManifest
  BY <1>1 DEF createMint, initializeMetadata, initializeWhitelistAuthority,
     needT22Accounts, mintSupply, whitelistAdminAccounts,
     whitelistConversionVaults, whitelistStakeVault, whitelistCarnageVaults,
     whitelistCurveVaults, seedVault, burnMintAuthority, initializeStakePool,
     checkBcDeployed, launchGate, writeManifest, curveVars, payments
<1>2. CASE \/ initializeExtraAccountMetas \/ initializeAmmAdmin
           \/ initializeVaultConfig \/ initializeEpochState
           \/ initializeCarnageFund \/ createCarnageWsol
           \/ initializeWsolIntermediary \/ fundCarnageSol
  BY <1>2 DEF initializeExtraAccountMetas, initializeAmmAdmin,
     initializeVaultConfig, initializeEpochState, initializeCarnageFund,
     createCarnageWsol, initializeWsolIntermediary, fundCarnageSol, Ensure,
     curveVars, payments
<1>3. CASE initializeBcAdmin \/ fundCurve \/ startCurve \/ initializeCurve
  BY <1>3 DEF initializeBcAdmin, initialize_bc_admin, fundCurve, fund_curve,
     startCurve, start_curve, initializeCurve, initialize_curve, curveVars, payments
<1> QED BY <1>1, <1>2, <1>3 DEF ScriptStep

LEMMA AmountsStep ==
  ASSUME LaunchTyped, CurveInv, CurveExtra, AmountsInv, ScriptsAndTrades
  PROVE  AmountsInv'
<1>1. CASE \/ StartScript /\ UNCHANGED <<stops, gradVars>>
           \/ (ScriptDies \/ DeployBondingCurve) /\ UNCHANGED gradVars
           \/ transferAuthorities /\ UNCHANGED <<deployVars, gradVars>>
           \/ UNCHANGED launchVars
  <2>1. UNCHANGED <<withdrawn, grad, file, pool, overridden>>
    BY <1>1, OperatorSteps DEF gradVars
  <2> QED BY <2>1, SameAmounts
<1>2. CASE \/ ScriptStep /\ UNCHANGED <<stops, gradVars>>
           \/ UserStep /\ UNCHANGED <<hookVars, deployVars, gradVars>>
  <2>1. UNCHANGED <<withdrawn, grad, file, pool, overridden>>
    BY <1>2, ScriptLeavesAmounts, UsersArePermissionless, UsersLeaveTokens DEF gradVars
  <2> QED BY <2>1, SameAmounts
<1>3. CASE StartGraduation \/ GraduationDies
  <2>1. grad'.phase = "exec"
    <3>1. \/ grad' = NotRunning
          \/ grad' = [NotRunning EXCEPT !.on = TRUE, !.override = AmountLost]
      BY <1>3 DEF StartGraduation, GraduationDies
    <3>2. NotRunning.phase = "exec"
      BY DEF NotRunning
    <3>3. [NotRunning EXCEPT !.on = TRUE, !.override = AmountLost].phase = "exec"
      BY DEF NotRunning
    <3> QED BY <3>1, <3>2, <3>3, Zenon
  <2>2. UNCHANGED <<withdrawn, file, pool, overridden>>
    BY <1>3 DEF StartGraduation, GraduationDies, curveVars, payments
  <2> QED BY <2>1, <2>2, SameAmounts
<1>4. CASE GraduationStep
  BY <1>4, GraduationKeepsAmounts DEF CurveInv
<1> QED BY <1>1, <1>2, <1>3, <1>4 DEF ScriptsAndTrades
--------------------------------------------------------------------------------
(* The invariant of the launch, with that of the curves. *)
LaunchInv ==
  /\ CurveInv /\ CurveExtra
  /\ LaunchTyped
  /\ SeedingInv
  /\ \A t \in Mint : Placed(t)
  /\ AmountsInv

LEMMA LaunchInvInit == InitLaunch => LaunchInv
<1> SUFFICES ASSUME InitLaunch PROVE LaunchInv
  OBVIOUS
<1>0. /\ InitCurves
      /\ chain = [exists |-> {}, bc_deployed |-> FALSE, authority |-> {},
                  supply |-> [t \in Mint |-> 0], admin |-> [t \in Mint |-> 0],
                  vault |-> [t \in Mint |-> 0], staked |-> 0]
      /\ script = Idle
      /\ file = [completed |-> {}, withdrawn |-> [c \in Token |-> Unknown]]
      /\ grad = NotRunning
      /\ pool = [c \in Token |-> [sol |-> 0, tokens |-> 0]]
      /\ overridden = {} /\ emptied = {} /\ converted = [t \in Mint |-> 0]
  BY DEF InitLaunch, InitDeployment
<1>1. CurveInv /\ CurveExtra
  BY <1>0, CurveInvInit, CurveExtraInit
<1>2. LaunchTyped
  <2>1. chain \in ChainType
    BY <1>0 DEF ChainType
  <2>2. file \in FileType /\ pool \in PoolType
    BY <1>0 DEF FileType, PoolType, Unknown
  <2>3. grad \in ProcessType
    BY <1>0 DEF NotRunning, Unknown, ProcessType
  <2>4. converted \in [Mint -> Int] /\ \A t \in Mint : VaultBalance(t) \in Nat
    BY <1>0 DEF VaultBalance
  <2> QED BY <1>0, <2>1, <2>2, <2>3, <2>4, IdleTyped DEF LaunchTyped
<1>3. SeedingInv
  <2>1. script.run # "running" /\ ~grad.on /\ chain.staked = 0
    BY <1>0 DEF Idle, NotRunning
  <2>2. \A c \in Token : curve[c].status = "None"
    BY <1>0 DEF InitCurves, NoCurve
  <2>3. \A t \in Mint : ~(chain.vault[t] > 0)
    BY <1>0
  <2> QED BY <2>1, <2>2, <2>3 DEF SeedingInv, PassedAreSeeded, CurvesAreSeeded,
         GraduationIsSeeded, StakeIsMade, SeedsLast
<1>4. \A t \in Mint : Placed(t)
  <2>1. \A c \in Token : funded[c] = 0 /\ pool[c].tokens = 0
    BY <1>0 DEF InitCurves
  <2>2. \A t \in Mint : chain.supply[t] = 0 /\ chain.admin[t] = 0 /\ chain.vault[t] = 0
    BY <1>0
  <2>3. chain.staked = 0
    BY <1>0
  <2>4. \A t \in Mint : OnCurve(t) = 0 /\ InPool(t) = 0 /\ InStake(t) = 0
    BY <2>1, <2>3 DEF OnCurve, InPool, InStake
  <2> QED BY <2>2, <2>4 DEF Placed
<1>5. AmountsInv
  <2>1. ~grad.on
    BY <1>0 DEF NotRunning
  <2>2. \A c \in Token : file.withdrawn[c] = 0 /\ pool[c].tokens = 0
    BY <1>0 DEF Unknown
  <2> QED BY <2>1, <2>2 DEF AmountsInv, WorkIsPending, InHand, OnFile, AtValue
<1> QED BY <1>1, <1>2, <1>3, <1>4, <1>5 DEF LaunchInv

LEMMA LaunchInvStep == LaunchInv /\ [LaunchNext]_launchVars => LaunchInv'
<1> SUFFICES ASSUME LaunchInv, [LaunchNext]_launchVars PROVE LaunchInv'
  OBVIOUS
<1>0. /\ CurveInv /\ CurveExtra /\ LaunchTyped /\ SeedingInv /\ AmountsInv
      /\ \A t \in Mint : Placed(t)
      /\ CurveTypeOK /\ GraduationIsSeeded /\ StakeIsMade /\ SeedsLast
  BY DEF LaunchInv, CurveInv, SeedingInv
<1>1. [CurveNext]_curveVars
  BY <1>0, LaunchRunsCurves
<1>2. CurveInv' /\ CurveExtra'
  BY <1>0, <1>1, CurveInvStep, CurveExtraStep
<1>3. CASE UserConverts /\ UNCHANGED <<hookVars, deployVars, gradVars>>
  <2>1. /\ LaunchTyped' /\ UNCHANGED <<chain, grad, file, pool, overridden>>
        /\ UNCHANGED <<funded, withdrawn>> /\ emptied \subseteq emptied'
    BY <1>0, <1>3, ConversionMoves
  <2>2. SeedingInv'
    BY <1>0, <1>3, ConversionKeepsSeeding
  <2>3. \A t \in Mint : Placed(t)'
    BY <1>0, <2>1 DEF Placed, OnCurve, InPool, InStake
  <2>4. AmountsInv'
    BY <1>0, <2>1, SameAmounts
  <2> QED BY <1>2, <2>1, <2>2, <2>3, <2>4 DEF LaunchInv
<1>4. CASE ScriptsAndTrades /\ UNCHANGED convertVars
  <2>1. LaunchTyped' /\ Moves
    BY <1>0, <1>4, LaunchStepMoves
  <2>2. SeedingInv'
    BY <1>0, <1>4, SeedingStep
  <2>3. UNCHANGED emptied
    BY <1>4 DEF convertVars
  <2>4. \A t \in Mint : Placed(t)'
    BY <1>0, <2>1, <2>3, MovesKeepPlaced
  <2>5. AmountsInv'
    BY <1>0, <1>4, AmountsStep
  <2> QED BY <1>2, <2>1, <2>2, <2>4, <2>5 DEF LaunchInv
<1> QED BY <1>3, <1>4, LaunchSteps

LEMMA LaunchInvariant == LaunchSpec => []LaunchInv
  BY LaunchInvInit, LaunchInvStep, PTL DEF LaunchSpec

\* The scripts may die and be run again as often as they like, and users convert
\* as they like: each token is minted once, and each place is given its share once
\* and in full, but for a vault that conversions have emptied.
THEOREM TokensAlwaysPlaced == LaunchSpec => []TokensArePlaced
<1>1. LaunchInv => TokensArePlaced
  BY PlacedIsPlaced DEF LaunchInv
<1> QED BY <1>1, LaunchInvariant, PTL

\* A pool that nobody overrode opens with what its own curve raised, whichever
\* run withdrew it and whichever opened the pool.
THEOREM PoolsAlwaysOpenAtCurveValue == LaunchSpec => []PoolsOpenAtCurveValue
<1>1. LaunchInv => PoolsOpenAtCurveValue
  BY DEF LaunchInv, AmountsInv, AtValue, Net, PoolsOpenAtCurveValue
<1> QED BY <1>1, LaunchInvariant, PTL
================================================================================
