-------------------------------- MODULE Staking --------------------------------
(***************************************************************************)
(* The staking program (src/programs/staking): users stake PROFIT, the tax *)
(* program deposits SOL rewards, the epoch program distributes them over   *)
(* the stakes of the moment by raising a cumulative reward per token, and  *)
(* users claim what their stake has earned.                                *)
(*                                                                         *)
(* Arithmetic is on naturals: u128 and u64 overflows make a transaction    *)
(* fail and are out of reach of the amounts the protocol can hold.  The    *)
(* slots recorded for information are left out.                            *)
(*                                                                         *)
(* A definition named X_Something, just before X, is X with a mistake the  *)
(* properties are meant to catch; nothing uses it.                         *)
(***************************************************************************)
EXTENDS IntegerMath, Functions, FiniteSets

CONSTANTS
  User,              \* the owners of UserStake accounts
  PRECISION,         \* scale of the reward per token
  MINIMUM_STAKE,     \* the dead stake, and the least a position keeps
  COOLDOWN_SECONDS,  \* from a claim to the next unstake
  ESCROW_RENT,       \* lamports the escrow has to keep
  Amounts,           \* the amounts of PROFIT users stake and unstake
  Rewards            \* the amounts of SOL the tax program deposits

\* Bounds of the model: the last second, the last epoch, the PROFIT a user owns
\* and the SOL ever deposited.
CONSTANTS MaxTime, MaxRewardEpoch, Wallet, MaxDeposited

ASSUME StakingAssumption ==
  /\ IsFiniteSet(User)
  /\ PRECISION \in Nat \ {0}
  /\ MINIMUM_STAKE \in Nat \ {0}
  /\ COOLDOWN_SECONDS \in Nat
  /\ ESCROW_RENT \in Nat
  /\ Amounts \subseteq Nat
  /\ Rewards \subseteq Nat
  /\ MaxTime \in Nat
  /\ MaxRewardEpoch \in Nat
  /\ Wallet \in Nat
  /\ MaxDeposited \in Nat

VARIABLES
  now,               \* Clock.unix_timestamp
  \* StakePool
  total_staked, rewards_per_token_stored, pending_rewards,
  last_update_epoch, total_distributed, total_claimed,
  \* UserStake accounts
  user_stake,
  \* token and lamport balances
  profit_wallet, stake_vault, escrow_vault,
  \* auxiliary: the time of a user's last claim, 0 if there was none
  last_claim_at

rewardVars == <<rewards_per_token_stored, pending_rewards>>
totalVars  == <<total_distributed, total_claimed>>
tokenVars  == <<total_staked, profit_wallet, stake_vault>>
stakingVars ==
  <<now, tokenVars, rewardVars, totalVars, last_update_epoch, user_stake,
    escrow_vault, last_claim_at>>

UserStake == [open                   : BOOLEAN,
              staked_balance         : Nat,
              rewards_per_token_paid : Nat,
              rewards_earned         : Nat,
              total_claimed          : Nat,
              last_claim_ts          : Nat]

NewUserStake == [open                   |-> FALSE,
                 staked_balance         |-> 0,
                 rewards_per_token_paid |-> 0,
                 rewards_earned         |-> 0,
                 total_claimed          |-> 0,
                 last_claim_ts          |-> 0]

\* initialize_stake_pool: the authority's dead stake is in the pool for good.
InitStaking ==
  /\ now = 1
  /\ total_staked = MINIMUM_STAKE
  /\ stake_vault = MINIMUM_STAKE
  /\ rewards_per_token_stored = 0
  /\ pending_rewards = 0
  /\ last_update_epoch = 0
  /\ total_distributed = 0
  /\ total_claimed = 0
  /\ user_stake = [u \in User |-> NewUserStake]
  /\ profit_wallet = [u \in User |-> Wallet]
  /\ escrow_vault = ESCROW_RENT
  /\ last_claim_at = [u \in User |-> 0]

TimePasses ==
  /\ now < MaxTime
  /\ now' = now + 1
  /\ UNCHANGED <<tokenVars, rewardVars, totalVars, last_update_epoch, user_stake,
                 escrow_vault, last_claim_at>>

------------------------------------------------------------------------------
(***************************************************************************)
(* update_rewards: what an account has earned since its last checkpoint,   *)
(* rounded down, is credited to it, on the balance it had so far.          *)
(***************************************************************************)
RewardsSince(account) ==
  (account.staked_balance * (rewards_per_token_stored - account.rewards_per_token_paid))
    \div PRECISION

update_rewards_KeepsCheckpoint(account) ==
  [account EXCEPT !.rewards_earned = @ + RewardsSince(account)]

update_rewards_Overwrites(account) ==
  [account EXCEPT !.rewards_earned = RewardsSince(account),
                  !.rewards_per_token_paid = rewards_per_token_stored]

update_rewards(account) ==
  [account EXCEPT !.rewards_earned = @ + RewardsSince(account),
                  !.rewards_per_token_paid = rewards_per_token_stored]

\* init_if_needed: only a first stake opens the account, at the current reward
\* per token.
Opened_EveryTime(account) ==
  [account EXCEPT !.open = TRUE,
                  !.staked_balance = 0,
                  !.rewards_per_token_paid = rewards_per_token_stored,
                  !.last_claim_ts = 0]

Opened(account) ==
  IF account.open
    THEN account
    ELSE [account EXCEPT !.open = TRUE,
                         !.rewards_per_token_paid = rewards_per_token_stored,
                         !.last_claim_ts = 0]

stake(u, amount) ==
  LET account == update_rewards(Opened(user_stake[u]))
  IN /\ amount > 0
     /\ amount <= profit_wallet[u]
     /\ user_stake' = [user_stake EXCEPT
          ![u] = [account EXCEPT !.staked_balance = @ + amount]]
     /\ total_staked' = total_staked + amount
     /\ profit_wallet' = [profit_wallet EXCEPT ![u] = @ - amount]
     /\ stake_vault' = stake_vault + amount
     /\ UNCHANGED <<now, rewardVars, totalVars, last_update_epoch, escrow_vault,
                    last_claim_at>>

CooldownOver(account) ==
  \/ account.last_claim_ts = 0
  \/ now - account.last_claim_ts >= COOLDOWN_SECONDS

CanUnstake_AnyAmount(account, requested) ==
  account.open /\ requested > 0 /\ CooldownOver(account)

CanUnstake_ExitFreely(account, requested) ==
  /\ account.open
  /\ requested \in 1..account.staked_balance
  /\ CooldownOver(account) \/ requested = account.staked_balance

CanUnstake(account, requested) ==
  /\ account.open
  /\ requested > 0
  /\ requested <= account.staked_balance
  /\ CooldownOver(account)

\* An unstake that would leave less than MINIMUM_STAKE takes the whole balance.
UnstakeAmount_AsAsked(balance, amount) == amount

UnstakeAmount(balance, amount) ==
  IF saturating_sub(balance, amount) \in 1..MINIMUM_STAKE-1 THEN balance ELSE amount

\* Unstaking forfeits the rewards not yet claimed; a full exit ends the cooldown.
AfterUnstake(account, amount) ==
  LET balance == account.staked_balance - amount
  IN [account EXCEPT !.rewards_earned = 0,
                     !.staked_balance = balance,
                     !.last_claim_ts = IF balance = 0 THEN 0 ELSE @]

unstake(u, requested) ==
  LET account == update_rewards(user_stake[u])
      amount  == UnstakeAmount(account.staked_balance, requested)
  IN /\ CanUnstake(user_stake[u], requested)
     /\ user_stake' = [user_stake EXCEPT ![u] = AfterUnstake(account, amount)]
     /\ pending_rewards' = pending_rewards + account.rewards_earned
     /\ total_staked' = total_staked - amount
     /\ stake_vault' = stake_vault - amount
     /\ profit_wallet' = [profit_wallet EXCEPT ![u] = @ + amount]
     /\ UNCHANGED <<now, rewards_per_token_stored, totalVars, last_update_epoch,
                    escrow_vault, last_claim_at>>

\* claim pays what was earned out of what the escrow can spare.
claim(u) ==
  LET account == update_rewards(user_stake[u])
      rewards == account.rewards_earned
  IN /\ user_stake[u].open
     /\ rewards > 0
     /\ rewards <= saturating_sub(escrow_vault, ESCROW_RENT)
     /\ user_stake' = [user_stake EXCEPT
          ![u] = [account EXCEPT !.rewards_earned = 0,
                                 !.last_claim_ts = now,
                                 !.total_claimed = @ + rewards]]
     /\ total_claimed' = total_claimed + rewards
     /\ escrow_vault' = escrow_vault - rewards
     /\ last_claim_at' = [last_claim_at EXCEPT ![u] = now]
     /\ UNCHANGED <<now, tokenVars, rewardVars, total_distributed, last_update_epoch>>

------------------------------------------------------------------------------
(***************************************************************************)
(* Calls from the other programs.  The tax program transfers the SOL and   *)
(* calls deposit_rewards in one transaction; the epoch program calls       *)
(* update_cumulative when an epoch is finalised.                           *)
(***************************************************************************)
Deposited == escrow_vault - ESCROW_RENT + total_claimed

deposit_rewards(amount) ==
  /\ Deposited + amount <= MaxDeposited
  /\ amount > 0
  /\ escrow_vault' = escrow_vault + amount
  /\ pending_rewards' = pending_rewards + amount
  /\ escrow_vault' >= pending_rewards'
  /\ UNCHANGED <<now, tokenVars, rewards_per_token_stored, totalVars,
                 last_update_epoch, user_stake, last_claim_at>>

RewardPerToken == (pending_rewards * PRECISION) \div total_staked

update_cumulative(epoch) ==
  /\ epoch > last_update_epoch
  /\ IF pending_rewards > 0 /\ total_staked > 0
       THEN /\ rewards_per_token_stored' = rewards_per_token_stored + RewardPerToken
            /\ total_distributed' = total_distributed + pending_rewards
       ELSE UNCHANGED <<rewards_per_token_stored, total_distributed>>
  /\ pending_rewards' = 0
  /\ last_update_epoch' = epoch
  /\ UNCHANGED <<now, tokenVars, total_claimed, user_stake, escrow_vault, last_claim_at>>

StakingNext ==
  \/ TimePasses
  \/ \E u \in User :
       \/ \E amount \in Amounts : stake(u, amount) \/ unstake(u, amount)
       \/ claim(u)
  \/ \E amount \in Rewards : deposit_rewards(amount)
  \/ \E epoch \in 1..MaxRewardEpoch : update_cumulative(epoch)

StakingSpec == InitStaking /\ [][StakingNext]_stakingVars

------------------------------------------------------------------------------
StakingTypeOK ==
  /\ now \in Nat
  /\ total_staked \in Nat
  /\ rewards_per_token_stored \in Nat
  /\ pending_rewards \in Nat
  /\ last_update_epoch \in Nat
  /\ total_distributed \in Nat
  /\ total_claimed \in Nat
  /\ user_stake \in [User -> UserStake]
  /\ profit_wallet \in [User -> Nat]
  /\ stake_vault \in Nat
  /\ escrow_vault \in Nat
  /\ last_claim_at \in [User -> Nat]

\* What an account would be credited with, were it checkpointed now.
Claimable(account) == account.rewards_earned + RewardsSince(account)

\* The escrow, its rent set aside, covers the rewards waiting for distribution
\* and everything every user could claim, roundings, forfeitures and late
\* joiners included: whoever claims last is paid.
EscrowCoversClaims ==
  escrow_vault - ESCROW_RENT >=
    pending_rewards + SumFunction([u \in User |-> Claimable(user_stake[u])])

\* The stake on record is the dead stake plus the users' stakes, and the vault
\* holds exactly that: everyone can leave, and the divisor of a distribution is
\* never smaller than the dead stake.
StakeIsBacked ==
  /\ total_staked =
       MINIMUM_STAKE + SumFunction([u \in User |-> user_stake[u].staked_balance])
  /\ stake_vault = total_staked

\* No account is ahead of the pool's reward per token, so no checkpoint fails,
\* and an account without stake has nothing to claim.
CheckpointsAreBehind ==
  \A u \in User :
    LET account == user_stake[u]
    IN /\ account.rewards_per_token_paid <= rewards_per_token_stored
       /\ account.staked_balance = 0 => account.rewards_earned = 0

\* What a user can claim shrinks only by the user's own claim or unstake: no
\* other user's transaction, deposit or distribution takes rewards away.
RewardsAreNotTaken ==
  [][\A u \in User :
       Claimable(user_stake[u])' < Claimable(user_stake[u]) =>
         \/ user_stake'[u].total_claimed > user_stake[u].total_claimed
         \/ user_stake'[u].staked_balance < user_stake[u].staked_balance]_stakingVars

\* Stake leaves the pool only when the cooldown after the user's latest claim is
\* over, however often the user left and came back since.
CooldownIsKept ==
  [][\A u \in User :
       user_stake'[u].staked_balance < user_stake[u].staked_balance =>
         \/ last_claim_at[u] = 0
         \/ now - last_claim_at[u] >= COOLDOWN_SECONDS]_stakingVars

\* An unstake leaves no position smaller than MINIMUM_STAKE.
NoDustAfterUnstake ==
  [][\A u \in User :
       user_stake'[u].staked_balance < user_stake[u].staked_balance =>
         \/ user_stake'[u].staked_balance = 0
         \/ user_stake'[u].staked_balance >= MINIMUM_STAKE]_stakingVars
==============================================================================
