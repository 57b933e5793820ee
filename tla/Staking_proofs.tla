----------------------------- MODULE Staking_proofs -----------------------------
(***************************************************************************)
(* Theorems about the staking program, for every finite set of users and   *)
(* every value of the constants: first what holds of one user's account,   *)
(* then what the accounts add up to.                                       *)
(***************************************************************************)
EXTENDS Staking, Arithmetic_proofs

\* What an account records.  The total stake is only an integer here: that it is
\* not negative rests on the sum of all the stakes (VaultsTyped).
AccountsTyped ==
  /\ now \in Nat
  /\ rewards_per_token_stored \in Nat
  /\ pending_rewards \in Nat
  /\ total_staked \in Int
  /\ user_stake \in [User -> UserStake]
  /\ profit_wallet \in [User -> Nat]
  /\ last_claim_at \in [User -> Nat]

\* An account nobody opened is as the runtime creates it.
UnopenedIsNew ==
  \A u \in User : ~user_stake[u].open => user_stake[u] = NewUserStake /\ last_claim_at[u] = 0

\* The account remembers the user's last claim until its cooldown is over.
CooldownOnRecord ==
  \A u \in User :
    /\ last_claim_at[u] <= now
    /\ user_stake[u].last_claim_ts = last_claim_at[u]
         \/ /\ user_stake[u].last_claim_ts = 0
            /\ now - last_claim_at[u] >= COOLDOWN_SECONDS

StakingInv ==
  AccountsTyped /\ UnopenedIsNew /\ CheckpointsAreBehind /\ CooldownOnRecord

------------------------------------------------------------------------------
(***************************************************************************)
(* What the operations make of an account.                                 *)
(***************************************************************************)
\* A quotient grows with its dividend.
LEMMA DivMonotone ==
  ASSUME NEW m \in Nat, NEW n \in Nat, NEW d \in Nat \ {0}, m <= n
  PROVE  m \div d <= n \div d
<1> DEFINE p == m \div d
           q == n \div d
<1>1. p \in Nat /\ q \in Nat
  BY DivNat
<1>2. d * p <= m /\ n < d * q + d
  BY DivBounds
<1> HIDE DEF p, q
<1>3. SUFFICES ASSUME p >= q + 1 PROVE FALSE
  BY <1>1 DEF p, q
<1>4. PICK r \in Nat : p = q + 1 + r
  <2>1. p - q - 1 \in Nat /\ p = q + 1 + (p - q - 1)
    BY <1>1, <1>3
  <2> QED BY <2>1
<1>5. d * p = d * q + d + d * r
  BY <1>1, <1>4
<1>6. d * r \in Nat /\ d * q \in Nat /\ d * p \in Nat
  BY <1>1, ProductNat
<1> QED BY <1>2, <1>5, <1>6

\* Raising the reward per token lowers nobody's rewards.
LEMMA RewardsMonotone ==
  ASSUME NEW balance \in Nat, NEW paid \in Nat, NEW low \in Nat, NEW high \in Nat,
         paid <= low, low <= high
  PROVE  /\ (balance * (low - paid)) \div PRECISION \in Nat
         /\ (balance * (high - paid)) \div PRECISION \in Nat
         /\ (balance * (low - paid)) \div PRECISION <= (balance * (high - paid)) \div PRECISION
<1>1. PICK x \in Nat, y \in Nat : low - paid = x /\ high - paid = x + y
  <2>1. low - paid \in Nat /\ high - low \in Nat /\ high - paid = (low - paid) + (high - low)
    OBVIOUS
  <2> QED BY <2>1
<1>2. balance * x \in Nat /\ balance * (x + y) \in Nat /\ balance * x <= balance * (x + y)
  <2>1. balance * x \in Nat /\ balance * y \in Nat
    BY ProductNat
  <2>2. balance * (x + y) = balance * x + balance * y
    OBVIOUS
  <2> QED BY <2>1, <2>2
<1>3. PRECISION \in Nat \ {0}
  BY StakingAssumption
<1> QED BY <1>1, <1>2, <1>3, DivNat, DivMonotone

\* A checkpoint credits what was earned, moves the account up to the pool, and
\* changes nothing else.
LEMMA UpdateRewards ==
  ASSUME AccountsTyped, NEW account \in UserStake,
         account.rewards_per_token_paid <= rewards_per_token_stored
  PROVE  /\ RewardsSince(account) \in Nat
         /\ update_rewards(account) \in UserStake
         /\ update_rewards(account) =
              [account EXCEPT !.rewards_earned = account.rewards_earned + RewardsSince(account),
                              !.rewards_per_token_paid = rewards_per_token_stored]
<1> DEFINE credit == RewardsSince(account)
<1>1. /\ account.staked_balance \in Nat
      /\ account.rewards_per_token_paid \in Nat
      /\ account.rewards_earned \in Nat
      /\ rewards_per_token_stored \in Nat
  BY DEF AccountsTyped, UserStake
<1>2. credit \in Nat
  <2>1. rewards_per_token_stored - account.rewards_per_token_paid \in Nat
    BY <1>1
  <2>2. account.staked_balance * (rewards_per_token_stored - account.rewards_per_token_paid) \in Nat
    BY <1>1, <2>1, ProductNat
  <2>3. PRECISION \in Nat \ {0}
    BY StakingAssumption
  <2> QED BY <2>2, <2>3, DivNat DEF RewardsSince
<1>3. update_rewards(account) =
        [account EXCEPT !.rewards_earned = account.rewards_earned + credit,
                        !.rewards_per_token_paid = rewards_per_token_stored]
  BY DEF update_rewards, UserStake
<1> HIDE DEF credit
<1>4. account.rewards_earned + credit \in Nat
  BY <1>1, <1>2
<1>5. update_rewards(account) \in UserStake
  BY <1>1, <1>3, <1>4 DEF UserStake
<1> QED BY <1>2, <1>3, <1>5 DEF credit

\* Without a stake there is nothing to credit.
LEMMA NoStakeNoRewards ==
  ASSUME AccountsTyped, NEW account \in UserStake, account.staked_balance = 0,
         account.rewards_per_token_paid <= rewards_per_token_stored
  PROVE  RewardsSince(account) = 0
<1>1. rewards_per_token_stored - account.rewards_per_token_paid \in Nat
  BY DEF AccountsTyped, UserStake
<1>2. 0 * (rewards_per_token_stored - account.rewards_per_token_paid) = 0
  BY <1>1
<1>3. 0 \div PRECISION = 0
  BY StakingAssumption
<1> QED BY <1>2, <1>3 DEF RewardsSince

\* An account a checkpoint has just brought up to the pool has no more to earn.
LEMMA NothingSinceCheckpoint ==
  ASSUME NEW account \in UserStake, NEW stored \in Nat, account.rewards_per_token_paid = stored
  PROVE  (account.staked_balance * (stored - account.rewards_per_token_paid)) \div PRECISION = 0
<1>1. stored - account.rewards_per_token_paid = 0
  OBVIOUS
<1>2. account.staked_balance * 0 = 0
  BY DEF UserStake
<1>3. 0 \div PRECISION = 0
  BY StakingAssumption
<1> QED BY <1>1, <1>2, <1>3

\* An unstake takes a positive part of the balance and leaves nothing or at least
\* the minimum.
LEMMA UnstakeAmountBounds ==
  ASSUME NEW balance \in Nat, NEW requested \in Nat, 0 < requested, requested <= balance
  PROVE  /\ UnstakeAmount(balance, requested) \in 1..balance
         /\ \/ balance - UnstakeAmount(balance, requested) = 0
            \/ balance - UnstakeAmount(balance, requested) >= MINIMUM_STAKE
<1>1. MINIMUM_STAKE \in Nat
  BY StakingAssumption
<1> QED BY <1>1 DEF UnstakeAmount, saturating_sub

\* An account keeps its type when its balance changes,
LEMMA BalanceUpdate ==
  ASSUME NEW account \in UserStake, NEW balance \in Nat
  PROVE  [account EXCEPT !.staked_balance = balance] \in UserStake
  BY DEF UserStake

\* and when it is unstaked from.
LEMMA ExitUpdate ==
  ASSUME NEW account \in UserStake, NEW balance \in Nat, NEW claimed \in Nat
  PROVE  [account EXCEPT !.rewards_earned = 0,
                         !.staked_balance = balance,
                         !.last_claim_ts = claimed] \in UserStake
  BY DEF UserStake

\* An opened account is level with the pool and has the balance it had.
LEMMA Opening ==
  ASSUME StakingInv, NEW u \in User
  PROVE  LET account == Opened(user_stake[u])
         IN /\ account \in UserStake
            /\ account.open
            /\ account.rewards_per_token_paid <= rewards_per_token_stored
            /\ account.staked_balance = user_stake[u].staked_balance
            /\ account.rewards_earned = user_stake[u].rewards_earned
            /\ account.total_claimed = user_stake[u].total_claimed
            /\ account.last_claim_ts = user_stake[u].last_claim_ts
            /\ RewardsSince(account) = RewardsSince(user_stake[u])
<1>1. user_stake[u] \in UserStake /\ rewards_per_token_stored \in Nat
  BY DEF StakingInv, AccountsTyped
<1>2. CASE user_stake[u].open
  BY <1>1, <1>2 DEF Opened, StakingInv, CheckpointsAreBehind
<1>3. CASE ~user_stake[u].open
  <2>1. user_stake[u] = NewUserStake
    BY <1>3 DEF StakingInv, UnopenedIsNew
  <2>2. Opened(user_stake[u]) =
          [NewUserStake EXCEPT !.open = TRUE,
                               !.rewards_per_token_paid = rewards_per_token_stored,
                               !.last_claim_ts = 0]
    BY <1>3, <2>1 DEF Opened
  <2>3. Opened(user_stake[u]) =
          [open                   |-> TRUE,
           staked_balance         |-> 0,
           rewards_per_token_paid |-> rewards_per_token_stored,
           rewards_earned         |-> 0,
           total_claimed          |-> 0,
           last_claim_ts          |-> 0]
    BY <2>2 DEF NewUserStake
  <2>4. /\ Opened(user_stake[u]) \in UserStake
        /\ Opened(user_stake[u]).staked_balance = 0
        /\ Opened(user_stake[u]).rewards_per_token_paid <= rewards_per_token_stored
    <3>1. Opened(user_stake[u]) \in UserStake
      BY <1>1, <2>3 DEF UserStake
    <3>2. /\ Opened(user_stake[u]).staked_balance = 0
          /\ Opened(user_stake[u]).rewards_per_token_paid = rewards_per_token_stored
      BY <2>3
    <3> QED BY <1>1, <3>1, <3>2
  <2>5. /\ user_stake[u].staked_balance = 0
        /\ user_stake[u].rewards_per_token_paid <= rewards_per_token_stored
    <3>1. /\ user_stake[u].staked_balance = 0
          /\ user_stake[u].rewards_per_token_paid = 0
      BY <2>1 DEF NewUserStake
    <3> QED BY <1>1, <3>1
  <2>6. RewardsSince(Opened(user_stake[u])) = 0 /\ RewardsSince(user_stake[u]) = 0
    BY <1>1, <2>4, <2>5, NoStakeNoRewards DEF StakingInv
  <2> QED BY <2>1, <2>3, <2>4, <2>6 DEF NewUserStake
<1> QED BY <1>2, <1>3

------------------------------------------------------------------------------
(***************************************************************************)
(* What each instruction of a user does to the accounts.                   *)
(***************************************************************************)
OnlyAccountOf(u) ==
  /\ user_stake' \in [User -> UserStake]
  /\ \A v \in User \ {u} : user_stake'[v] = user_stake[v]

\* What a stake does to the account it is for.
LEMMA StakeEffect ==
  ASSUME StakingInv, NEW u \in User, NEW amount \in Amounts, stake(u, amount)
  PROVE  /\ OnlyAccountOf(u)
         /\ user_stake'[u].open
         /\ user_stake'[u].staked_balance = user_stake[u].staked_balance + amount
         /\ user_stake'[u].rewards_per_token_paid = rewards_per_token_stored
         /\ user_stake'[u].rewards_earned =
              user_stake[u].rewards_earned + RewardsSince(user_stake[u])
         /\ user_stake'[u].total_claimed = user_stake[u].total_claimed
         /\ user_stake'[u].last_claim_ts = user_stake[u].last_claim_ts
<1> DEFINE opened == Opened(user_stake[u])
           account == update_rewards(opened)
<1>1. amount \in Nat
  BY StakingAssumption
<1>2. /\ opened \in UserStake
      /\ opened.open
      /\ opened.rewards_per_token_paid <= rewards_per_token_stored
      /\ opened.staked_balance = user_stake[u].staked_balance
      /\ opened.rewards_earned = user_stake[u].rewards_earned
      /\ opened.total_claimed = user_stake[u].total_claimed
      /\ opened.last_claim_ts = user_stake[u].last_claim_ts
      /\ RewardsSince(opened) = RewardsSince(user_stake[u])
  BY Opening
<1>3. AccountsTyped
  BY DEF StakingInv
<1> HIDE DEF opened
<1>4. /\ account \in UserStake
      /\ account = [opened EXCEPT !.rewards_earned = opened.rewards_earned + RewardsSince(opened),
                                  !.rewards_per_token_paid = rewards_per_token_stored]
  BY <1>2, <1>3, UpdateRewards
<1>5. /\ account.open
      /\ account.staked_balance = opened.staked_balance
      /\ account.rewards_per_token_paid = rewards_per_token_stored
      /\ account.rewards_earned = opened.rewards_earned + RewardsSince(opened)
      /\ account.total_claimed = opened.total_claimed
      /\ account.last_claim_ts = opened.last_claim_ts
  BY <1>2, <1>4 DEF UserStake
<1>6. user_stake' = [user_stake EXCEPT
        ![u] = [account EXCEPT !.staked_balance = account.staked_balance + amount]]
  BY DEF stake, opened
<1> HIDE DEF account
<1>7. [account EXCEPT !.staked_balance = account.staked_balance + amount] \in UserStake
  <2>1. account \in UserStake
    BY <1>4
  <2>2. account.staked_balance + amount \in Nat
    BY <1>1, <2>1 DEF UserStake
  <2> QED BY <2>1, <2>2, BalanceUpdate
<1>8. user_stake \in [User -> UserStake]
  BY <1>3 DEF AccountsTyped
<1>9. user_stake'[u] = [account EXCEPT !.staked_balance = account.staked_balance + amount]
  BY <1>6, <1>8
<1>10. OnlyAccountOf(u)
  BY <1>6, <1>7, <1>8 DEF OnlyAccountOf
<1> QED BY <1>2, <1>4, <1>5, <1>9, <1>10 DEF UserStake

\* What an unstake does to the account it is for.
LEMMA UnstakeEffect ==
  ASSUME StakingInv, NEW u \in User, NEW requested \in Amounts, unstake(u, requested)
  PROVE  /\ OnlyAccountOf(u)
         /\ user_stake'[u].open
         /\ user_stake'[u].staked_balance < user_stake[u].staked_balance
         /\ user_stake'[u].staked_balance = 0 \/ user_stake'[u].staked_balance >= MINIMUM_STAKE
         /\ user_stake'[u].rewards_per_token_paid = rewards_per_token_stored
         /\ user_stake'[u].rewards_earned = 0
         /\ user_stake'[u].total_claimed = user_stake[u].total_claimed
         /\ user_stake'[u].last_claim_ts \in {0, user_stake[u].last_claim_ts}
         /\ CooldownOver(user_stake[u])
         /\ pending_rewards' \in Nat
         /\ profit_wallet' \in [User -> Nat]
         /\ pending_rewards' = pending_rewards + Claimable(user_stake[u])
         /\ total_staked' =
              total_staked - (user_stake[u].staked_balance - user_stake'[u].staked_balance)
         /\ stake_vault' =
              stake_vault - (user_stake[u].staked_balance - user_stake'[u].staked_balance)
<1> DEFINE account == update_rewards(user_stake[u])
           amount == UnstakeAmount(account.staked_balance, requested)
<1>1. requested \in Nat
  BY StakingAssumption
<1>2. AccountsTyped /\ user_stake[u] \in UserStake
      /\ user_stake[u].rewards_per_token_paid <= rewards_per_token_stored
  BY DEF StakingInv, AccountsTyped, CheckpointsAreBehind
<1>3. /\ user_stake[u].open
      /\ 0 < requested
      /\ requested <= user_stake[u].staked_balance
      /\ CooldownOver(user_stake[u])
  BY DEF unstake, CanUnstake
<1>4. /\ account \in UserStake
      /\ account.open
      /\ account.staked_balance = user_stake[u].staked_balance
      /\ account.rewards_per_token_paid = rewards_per_token_stored
      /\ account.total_claimed = user_stake[u].total_claimed
      /\ account.last_claim_ts = user_stake[u].last_claim_ts
      /\ account.rewards_earned = Claimable(user_stake[u])
  BY <1>2, <1>3, UpdateRewards DEF UserStake, Claimable
<1>5. /\ user_stake' = [user_stake EXCEPT ![u] = AfterUnstake(account, amount)]
      /\ total_staked' = total_staked - amount
      /\ stake_vault' = stake_vault - amount
      /\ pending_rewards' = pending_rewards + account.rewards_earned
      /\ profit_wallet' = [profit_wallet EXCEPT ![u] = profit_wallet[u] + amount]
  BY DEF unstake
<1> HIDE DEF account
<1>6. /\ amount \in 1..account.staked_balance
      /\ account.staked_balance - amount = 0 \/ account.staked_balance - amount >= MINIMUM_STAKE
  <2>1. account.staked_balance \in Nat
    BY <1>4 DEF UserStake
  <2> QED BY <1>1, <1>3, <1>4, <2>1, UnstakeAmountBounds
<1> HIDE DEF amount
<1> DEFINE balance == account.staked_balance - amount
<1>7. balance \in Nat /\ balance < account.staked_balance /\ amount \in Nat
  BY <1>4, <1>6 DEF UserStake
<1>8. AfterUnstake(account, amount) =
        [account EXCEPT !.rewards_earned = 0,
                        !.staked_balance = balance,
                        !.last_claim_ts = IF balance = 0 THEN 0 ELSE account.last_claim_ts]
  BY <1>4 DEF AfterUnstake, UserStake
<1> HIDE DEF balance
<1>9. AfterUnstake(account, amount) \in UserStake
  <2> DEFINE claimed == IF balance = 0 THEN 0 ELSE account.last_claim_ts
  <2>1. claimed \in Nat
    BY <1>4 DEF UserStake
  <2>2. AfterUnstake(account, amount) =
          [account EXCEPT !.rewards_earned = 0, !.staked_balance = balance,
                          !.last_claim_ts = claimed]
    BY <1>8
  <2> HIDE DEF claimed
  <2> QED BY <1>4, <1>7, <2>1, <2>2, ExitUpdate
<1>10. user_stake'[u] = AfterUnstake(account, amount) /\ OnlyAccountOf(u)
  BY <1>2, <1>5, <1>9 DEF OnlyAccountOf, AccountsTyped
<1>11. /\ user_stake'[u].open
       /\ user_stake'[u].staked_balance = balance
       /\ user_stake'[u].rewards_per_token_paid = account.rewards_per_token_paid
       /\ user_stake'[u].rewards_earned = 0
       /\ user_stake'[u].total_claimed = account.total_claimed
       /\ user_stake'[u].last_claim_ts \in {0, account.last_claim_ts}
  BY <1>4, <1>8, <1>10 DEF UserStake
<1>12. pending_rewards' \in Nat /\ profit_wallet' \in [User -> Nat]
  BY <1>2, <1>4, <1>5, <1>7 DEF AccountsTyped, UserStake
<1>13. /\ pending_rewards' = pending_rewards + Claimable(user_stake[u])
       /\ amount = user_stake[u].staked_balance - user_stake'[u].staked_balance
  <2>1. account.staked_balance \in Nat
    BY <1>4 DEF UserStake
  <2>2. amount = account.staked_balance - balance
    BY <1>7, <2>1 DEF balance
  <2> QED BY <1>4, <1>5, <1>11, <2>2
<1>14. balance = 0 \/ balance >= MINIMUM_STAKE
  BY <1>6 DEF balance
<1>15. /\ total_staked' =
            total_staked - (user_stake[u].staked_balance - user_stake'[u].staked_balance)
       /\ stake_vault' =
            stake_vault - (user_stake[u].staked_balance - user_stake'[u].staked_balance)
  BY <1>5, <1>13
<1>16. /\ user_stake'[u].staked_balance < user_stake[u].staked_balance
       /\ user_stake'[u].staked_balance = 0 \/ user_stake'[u].staked_balance >= MINIMUM_STAKE
  BY <1>4, <1>7, <1>11, <1>14
<1> QED BY <1>3, <1>4, <1>10, <1>11, <1>12, <1>13, <1>15, <1>16

\* What a claim does to the account it is for.
LEMMA ClaimEffect ==
  ASSUME StakingInv, NEW u \in User, claim(u)
  PROVE  /\ OnlyAccountOf(u)
         /\ user_stake'[u].open
         /\ user_stake'[u].staked_balance = user_stake[u].staked_balance
         /\ user_stake'[u].rewards_per_token_paid = rewards_per_token_stored
         /\ user_stake'[u].rewards_earned = 0
         /\ user_stake'[u].total_claimed > user_stake[u].total_claimed
         /\ user_stake'[u].last_claim_ts = now
         /\ Claimable(user_stake[u]) <= saturating_sub(escrow_vault, ESCROW_RENT)
         /\ escrow_vault' = escrow_vault - Claimable(user_stake[u])
         /\ total_claimed' = total_claimed + Claimable(user_stake[u])
<1> DEFINE account == update_rewards(user_stake[u])
           rewards == account.rewards_earned
<1>1. AccountsTyped /\ user_stake[u] \in UserStake
      /\ user_stake[u].rewards_per_token_paid <= rewards_per_token_stored
  BY DEF StakingInv, AccountsTyped, CheckpointsAreBehind
<1>2. /\ user_stake[u].open /\ rewards > 0
      /\ rewards <= saturating_sub(escrow_vault, ESCROW_RENT)
      /\ escrow_vault' = escrow_vault - rewards
      /\ total_claimed' = total_claimed + rewards
  BY DEF claim
<1>3. /\ account \in UserStake
      /\ account.open
      /\ account.staked_balance = user_stake[u].staked_balance
      /\ account.rewards_per_token_paid = rewards_per_token_stored
      /\ account.total_claimed = user_stake[u].total_claimed
      /\ account.rewards_earned = Claimable(user_stake[u])
  BY <1>1, <1>2, UpdateRewards DEF UserStake, Claimable
<1> DEFINE paid == [account EXCEPT !.rewards_earned = 0,
                                   !.last_claim_ts = now,
                                   !.total_claimed = account.total_claimed + rewards]
<1>4. user_stake' = [user_stake EXCEPT ![u] = paid]
  BY DEF claim
<1> HIDE DEF account
<1>5. now \in Nat /\ rewards \in Nat /\ account.total_claimed \in Nat
  BY <1>1, <1>3 DEF AccountsTyped, UserStake
<1>6. paid \in UserStake
  <2>1. account.total_claimed + rewards \in Nat
    BY <1>5
  <2> QED BY <1>3, <1>5, <2>1 DEF UserStake
<1>7. /\ paid.open
      /\ paid.staked_balance = account.staked_balance
      /\ paid.rewards_per_token_paid = account.rewards_per_token_paid
      /\ paid.rewards_earned = 0
      /\ paid.total_claimed = account.total_claimed + rewards
      /\ paid.last_claim_ts = now
  BY <1>3 DEF UserStake
<1> HIDE DEF paid
<1>8. user_stake'[u] = paid /\ OnlyAccountOf(u)
  BY <1>1, <1>4, <1>6 DEF OnlyAccountOf, AccountsTyped
<1> QED BY <1>2, <1>3, <1>5, <1>7, <1>8

------------------------------------------------------------------------------
(***************************************************************************)
(* The invariant.                                                          *)
(***************************************************************************)
\* A distribution raises the reward per token, or leaves it alone.
LEMMA CumulativeGrows ==
  ASSUME StakingInv, NEW epoch, update_cumulative(epoch)
  PROVE  /\ rewards_per_token_stored' \in Nat
         /\ rewards_per_token_stored' >= rewards_per_token_stored
<1>1. /\ rewards_per_token_stored \in Nat /\ pending_rewards \in Nat /\ total_staked \in Int
      /\ PRECISION \in Nat
  BY StakingAssumption DEF StakingInv, AccountsTyped
<1>2. CASE pending_rewards > 0 /\ total_staked > 0
  <2>1. RewardPerToken \in Nat
    <3>1. pending_rewards * PRECISION \in Nat /\ total_staked \in Nat \ {0}
      BY <1>1, <1>2, ProductNat
    <3> QED BY <3>1, DivNat DEF RewardPerToken
  <2>2. rewards_per_token_stored' = rewards_per_token_stored + RewardPerToken
    BY <1>2 DEF update_cumulative
  <2> QED BY <1>1, <2>1, <2>2
<1>3. CASE ~(pending_rewards > 0 /\ total_staked > 0)
  BY <1>1, <1>3 DEF update_cumulative
<1> QED BY <1>2, <1>3

\* The pool starts with the dead stake and unopened accounts.
LEMMA StakingInit == InitStaking => StakingInv
<1> SUFFICES ASSUME InitStaking PROVE StakingInv
  OBVIOUS
<1>1. NewUserStake \in UserStake
  BY DEF NewUserStake, UserStake
<1>2. /\ AccountsTyped
      /\ \A u \in User : user_stake[u] = NewUserStake /\ last_claim_at[u] = 0
  BY <1>1, StakingAssumption DEF InitStaking, AccountsTyped
<1>3. CheckpointsAreBehind
  BY <1>2 DEF InitStaking, CheckpointsAreBehind, NewUserStake
<1>4. UnopenedIsNew /\ CooldownOnRecord
  BY <1>2 DEF InitStaking, UnopenedIsNew, CooldownOnRecord, NewUserStake
<1> QED BY <1>2, <1>3, <1>4 DEF StakingInv

\* A user's instruction preserves the invariant if it leaves the user's own
\* account in order.
LEMMA OwnAccountInOrder ==
  ASSUME StakingInv, NEW u \in User, OnlyAccountOf(u), AccountsTyped',
         now' = now, rewards_per_token_stored' = rewards_per_token_stored,
         last_claim_at' \in [User -> Nat],
         \A v \in User \ {u} : last_claim_at'[v] = last_claim_at[v],
         user_stake'[u].open,
         user_stake'[u].rewards_per_token_paid = rewards_per_token_stored,
         user_stake'[u].staked_balance = 0 => user_stake'[u].rewards_earned = 0,
         last_claim_at'[u] <= now,
         user_stake'[u].last_claim_ts = last_claim_at'[u]
           \/ /\ user_stake'[u].last_claim_ts = 0
              /\ now - last_claim_at'[u] >= COOLDOWN_SECONDS
  PROVE  StakingInv'
<1>1. UnopenedIsNew'
  BY DEF StakingInv, UnopenedIsNew, OnlyAccountOf
<1>2. CheckpointsAreBehind'
  <2>1. rewards_per_token_stored \in Nat
    BY DEF StakingInv, AccountsTyped
  <2> QED BY <2>1 DEF StakingInv, CheckpointsAreBehind, OnlyAccountOf
<1>3. CooldownOnRecord'
  BY DEF StakingInv, CooldownOnRecord, OnlyAccountOf
<1> QED BY <1>1, <1>2, <1>3 DEF StakingInv

\* Every step preserves the invariant.
LEMMA StakingStep == StakingInv /\ [StakingNext]_stakingVars => StakingInv'
<1> SUFFICES ASSUME StakingInv, [StakingNext]_stakingVars PROVE StakingInv'
  OBVIOUS
<1>1. CASE TimePasses
  <2>1. AccountsTyped' /\ UnopenedIsNew' /\ CheckpointsAreBehind'
    BY <1>1 DEF TimePasses, StakingInv, AccountsTyped, UnopenedIsNew, CheckpointsAreBehind,
                tokenVars, rewardVars, totalVars
  <2>2. CooldownOnRecord'
    <3>1. /\ now \in Nat /\ now' = now + 1
          /\ user_stake' = user_stake /\ last_claim_at' = last_claim_at
          /\ last_claim_at \in [User -> Nat]
          /\ COOLDOWN_SECONDS \in Nat
      BY <1>1, StakingAssumption DEF TimePasses, StakingInv, AccountsTyped
    <3> QED BY <3>1 DEF StakingInv, CooldownOnRecord
  <2> QED BY <2>1, <2>2 DEF StakingInv
<1>2. ASSUME NEW u \in User, NEW amount \in Amounts, stake(u, amount)
      PROVE  StakingInv'
  <2>1. /\ now' = now /\ last_claim_at' = last_claim_at
        /\ rewards_per_token_stored' = rewards_per_token_stored
        /\ pending_rewards' = pending_rewards
        /\ total_staked' = total_staked + amount
        /\ amount <= profit_wallet[u]
        /\ profit_wallet' = [profit_wallet EXCEPT ![u] = profit_wallet[u] - amount]
    BY <1>2 DEF stake, rewardVars
  <2>2. amount \in Nat /\ amount > 0
    BY <1>2, StakingAssumption DEF stake
  <2>3. profit_wallet' \in [User -> Nat]
    BY <2>1, <2>2 DEF StakingInv, AccountsTyped
  <2>4. AccountsTyped'
    BY <1>2, <2>1, <2>2, <2>3, StakeEffect DEF StakingInv, AccountsTyped, OnlyAccountOf
  <2>5. user_stake'[u].staked_balance # 0
    <3>1. user_stake[u].staked_balance \in Nat
      BY DEF StakingInv, AccountsTyped, UserStake
    <3> QED BY <1>2, <2>2, <3>1, StakeEffect
  <2>6. /\ last_claim_at' \in [User -> Nat]
        /\ \A v \in User \ {u} : last_claim_at'[v] = last_claim_at[v]
    BY <2>1 DEF StakingInv, AccountsTyped
  <2>7. /\ last_claim_at'[u] <= now
        /\ user_stake'[u].last_claim_ts = last_claim_at'[u]
             \/ /\ user_stake'[u].last_claim_ts = 0
                /\ now - last_claim_at'[u] >= COOLDOWN_SECONDS
    BY <1>2, <2>1, StakeEffect DEF StakingInv, CooldownOnRecord
  <2> QED BY <1>2, <2>1, <2>4, <2>5, <2>6, <2>7, StakeEffect, OwnAccountInOrder
<1>3. ASSUME NEW u \in User, NEW amount \in Amounts, unstake(u, amount)
      PROVE  StakingInv'
  <2>1. /\ now' = now /\ last_claim_at' = last_claim_at
        /\ rewards_per_token_stored' = rewards_per_token_stored
    BY <1>3 DEF unstake
  <2>2. total_staked' \in Int
    <3> DEFINE balance == update_rewards(user_stake[u]).staked_balance
    <3>1. balance \in Nat
      BY UpdateRewards DEF StakingInv, AccountsTyped, CheckpointsAreBehind, UserStake
    <3>2. total_staked' = total_staked - UnstakeAmount(balance, amount)
      BY <1>3 DEF unstake
    <3> HIDE DEF balance
    <3>3. UnstakeAmount(balance, amount) \in Int
      BY <3>1, StakingAssumption DEF UnstakeAmount
    <3> QED BY <3>2, <3>3 DEF StakingInv, AccountsTyped
  <2>3. AccountsTyped'
    BY <1>3, <2>1, <2>2, UnstakeEffect DEF StakingInv, AccountsTyped, OnlyAccountOf
  <2>4. /\ last_claim_at' \in [User -> Nat]
        /\ \A v \in User \ {u} : last_claim_at'[v] = last_claim_at[v]
    BY <2>1 DEF StakingInv, AccountsTyped
  <2>5. /\ last_claim_at'[u] <= now
        /\ user_stake'[u].last_claim_ts = last_claim_at'[u]
             \/ /\ user_stake'[u].last_claim_ts = 0
                /\ now - last_claim_at'[u] >= COOLDOWN_SECONDS
    BY <1>3, <2>1, UnstakeEffect DEF StakingInv, CooldownOnRecord, CooldownOver
  <2> QED BY <1>3, <2>1, <2>3, <2>4, <2>5, UnstakeEffect, OwnAccountInOrder
<1>4. ASSUME NEW u \in User, claim(u)
      PROVE  StakingInv'
  <2>1. /\ now' = now
        /\ last_claim_at' = [last_claim_at EXCEPT ![u] = now]
        /\ UNCHANGED <<rewards_per_token_stored, pending_rewards, total_staked, profit_wallet>>
    BY <1>4 DEF claim, rewardVars, tokenVars
  <2>2. /\ last_claim_at' \in [User -> Nat]
        /\ \A v \in User \ {u} : last_claim_at'[v] = last_claim_at[v]
        /\ last_claim_at'[u] = now
    BY <2>1 DEF StakingInv, AccountsTyped
  <2>3. AccountsTyped'
    BY <1>4, <2>1, <2>2, ClaimEffect DEF StakingInv, AccountsTyped, OnlyAccountOf
  <2>4. now <= now
    BY DEF StakingInv, AccountsTyped
  <2> QED BY <1>4, <2>1, <2>2, <2>3, <2>4, ClaimEffect, OwnAccountInOrder
<1>5. ASSUME NEW amount \in Rewards, deposit_rewards(amount)
      PROVE  StakingInv'
  <2>1. amount \in Nat
    BY StakingAssumption
  <2>2. AccountsTyped'
    BY <1>5, <2>1 DEF deposit_rewards, StakingInv, AccountsTyped, tokenVars
  <2>3. UnopenedIsNew' /\ CheckpointsAreBehind' /\ CooldownOnRecord'
    BY <1>5 DEF deposit_rewards, StakingInv, UnopenedIsNew, CheckpointsAreBehind, CooldownOnRecord
  <2> QED BY <2>2, <2>3 DEF StakingInv
<1>6. ASSUME NEW epoch \in 1..MaxRewardEpoch, update_cumulative(epoch)
      PROVE  StakingInv'
  <2>1. rewards_per_token_stored' \in Nat /\ rewards_per_token_stored' >= rewards_per_token_stored
    BY <1>6, CumulativeGrows
  <2>2. /\ UNCHANGED <<now, total_staked, user_stake, profit_wallet, last_claim_at>>
        /\ pending_rewards' = 0
    BY <1>6 DEF update_cumulative, tokenVars
  <2>3. AccountsTyped'
    BY <2>1, <2>2 DEF StakingInv, AccountsTyped
  <2>4. UnopenedIsNew' /\ CooldownOnRecord'
    BY <2>2 DEF StakingInv, UnopenedIsNew, CooldownOnRecord
  <2>5. CheckpointsAreBehind'
    <3>1. /\ user_stake' = user_stake
          /\ \A u \in User : user_stake[u].rewards_per_token_paid \in Nat
          /\ rewards_per_token_stored \in Nat
      BY <2>2 DEF StakingInv, AccountsTyped, UserStake
    <3> QED BY <2>1, <3>1 DEF StakingInv, CheckpointsAreBehind
  <2> QED BY <2>3, <2>4, <2>5 DEF StakingInv
<1>7. CASE UNCHANGED stakingVars
  BY <1>7 DEF stakingVars, tokenVars, rewardVars, totalVars, StakingInv, AccountsTyped, UnopenedIsNew,
              CheckpointsAreBehind, CooldownOnRecord
<1> QED BY <1>1, <1>2, <1>3, <1>4, <1>5, <1>6, <1>7 DEF StakingNext

\* Every reachable state of the pool satisfies the invariant.
THEOREM StakingInvariant == StakingSpec => []StakingInv
  BY StakingInit, StakingStep, PTL DEF StakingSpec

\* No checkpoint in stake, unstake or claim fails for being ahead of the pool,
\* and rewards belong to stakes.
THEOREM CheckpointsAlwaysBehind == StakingSpec => []CheckpointsAreBehind
<1>1. StakingInv => CheckpointsAreBehind
  BY DEF StakingInv
<1> QED BY <1>1, StakingInvariant, PTL

------------------------------------------------------------------------------
(***************************************************************************)
(* What a step may never do to a user.                                     *)
(***************************************************************************)

\* The balance of a user who does not unstake does not shrink.
LEMMA OnlyUnstakeShrinks ==
  ASSUME StakingInv, [StakingNext]_stakingVars, NEW u \in User,
         user_stake'[u].staked_balance < user_stake[u].staked_balance
  PROVE  \E amount \in Amounts : unstake(u, amount)
<1>1. user_stake[u].staked_balance \in Nat
  BY DEF StakingInv, AccountsTyped, UserStake
<1>2. user_stake'[u].staked_balance # user_stake[u].staked_balance
  BY <1>1
<1>3. user_stake' # user_stake
  BY <1>2
<1>4. ASSUME NEW v \in User, NEW amount \in Amounts, stake(v, amount)
      PROVE  FALSE
  <2>1. amount \in Nat
    BY StakingAssumption
  <2>2. CASE v = u
    BY <1>1, <1>4, <2>1, <2>2, StakeEffect
  <2>3. CASE v # u
    BY <1>2, <1>4, <2>3, StakeEffect DEF OnlyAccountOf
  <2> QED BY <2>2, <2>3
<1>5. ASSUME NEW v \in User, claim(v)
      PROVE  FALSE
  BY <1>2, <1>5, ClaimEffect DEF OnlyAccountOf
<1>6. ASSUME NEW v \in User, NEW amount \in Amounts, unstake(v, amount), v # u
      PROVE  FALSE
  BY <1>2, <1>6, UnstakeEffect DEF OnlyAccountOf
<1>7. ~TimePasses /\ ~UNCHANGED stakingVars
      /\ (\A amount \in Rewards : ~deposit_rewards(amount))
      /\ (\A epoch \in 1..MaxRewardEpoch : ~update_cumulative(epoch))
  BY <1>3 DEF TimePasses, deposit_rewards, update_cumulative, stakingVars
<1> QED BY <1>4, <1>5, <1>6, <1>7 DEF StakingNext

\* The cooldown that a claim starts holds until it is over, through every
\* sequence of unstaking, leaving and staking anew.
THEOREM CooldownAlwaysKept == StakingSpec => CooldownIsKept
<1>1. ASSUME StakingInv, [StakingNext]_stakingVars, NEW u \in User,
             user_stake'[u].staked_balance < user_stake[u].staked_balance
      PROVE  last_claim_at[u] = 0 \/ now - last_claim_at[u] >= COOLDOWN_SECONDS
  <2>1. CooldownOver(user_stake[u])
    BY <1>1, OnlyUnstakeShrinks, UnstakeEffect
  <2> QED BY <1>1, <2>1 DEF StakingInv, CooldownOnRecord, CooldownOver
<1> DEFINE Kept == \A u \in User :
             user_stake'[u].staked_balance < user_stake[u].staked_balance =>
               \/ last_claim_at[u] = 0
               \/ now - last_claim_at[u] >= COOLDOWN_SECONDS
<1>2. StakingInv /\ [StakingNext]_stakingVars => [Kept]_stakingVars
  BY <1>1
<1> HIDE DEF Kept
<1>3. StakingSpec => [][Kept]_stakingVars
  BY <1>2, StakingInvariant, PTL DEF StakingSpec
<1> QED BY <1>3 DEF CooldownIsKept, Kept

\* An unstake leaves no position below the minimum: the remainder is paid out
\* with it.
THEOREM NeverDustAfterUnstake == StakingSpec => NoDustAfterUnstake
<1>1. ASSUME StakingInv, [StakingNext]_stakingVars, NEW u \in User,
             user_stake'[u].staked_balance < user_stake[u].staked_balance
      PROVE  user_stake'[u].staked_balance = 0 \/ user_stake'[u].staked_balance >= MINIMUM_STAKE
  BY <1>1, OnlyUnstakeShrinks, UnstakeEffect
<1> DEFINE NoDust == \A u \in User :
             user_stake'[u].staked_balance < user_stake[u].staked_balance =>
               \/ user_stake'[u].staked_balance = 0
               \/ user_stake'[u].staked_balance >= MINIMUM_STAKE
<1>2. StakingInv /\ [StakingNext]_stakingVars => [NoDust]_stakingVars
  BY <1>1
<1> HIDE DEF NoDust
<1>3. StakingSpec => [][NoDust]_stakingVars
  BY <1>2, StakingInvariant, PTL DEF StakingSpec
<1> QED BY <1>3 DEF NoDustAfterUnstake, NoDust

\* What a user can claim is a natural number.
LEMMA ClaimableNat ==
  ASSUME StakingInv, NEW u \in User
  PROVE  /\ RewardsSince(user_stake[u]) \in Nat
         /\ Claimable(user_stake[u]) \in Nat
         /\ Claimable(user_stake[u]) =
              user_stake[u].rewards_earned + RewardsSince(user_stake[u])
<1>1. RewardsSince(user_stake[u]) \in Nat
  BY UpdateRewards DEF StakingInv, AccountsTyped, CheckpointsAreBehind
<1> QED BY <1>1 DEF Claimable, StakingInv, AccountsTyped, UserStake

\* A step that leaves a user's account alone lowers no claim of that user.
LEMMA OthersKeepRewards ==
  ASSUME StakingInv, StakingInv', NEW u \in User, user_stake'[u] = user_stake[u],
         rewards_per_token_stored' >= rewards_per_token_stored
  PROVE  ~ (Claimable(user_stake[u])' < Claimable(user_stake[u]))
<1> DEFINE account == user_stake[u]
           before == (account.staked_balance *
                        (rewards_per_token_stored - account.rewards_per_token_paid)) \div PRECISION
           after == (account.staked_balance *
                       (rewards_per_token_stored' - account.rewards_per_token_paid)) \div PRECISION
<1>1. /\ account.staked_balance \in Nat
      /\ account.rewards_per_token_paid \in Nat
      /\ account.rewards_earned \in Nat
      /\ rewards_per_token_stored \in Nat /\ rewards_per_token_stored' \in Nat
      /\ account.rewards_per_token_paid <= rewards_per_token_stored
  BY DEF StakingInv, AccountsTyped, CheckpointsAreBehind, UserStake
<1>2. before \in Nat /\ after \in Nat /\ before <= after
  <2> HIDE DEF account
  <2>1. rewards_per_token_stored <= rewards_per_token_stored'
    BY <1>1
  <2> QED BY <1>1, <2>1, RewardsMonotone
<1>3. /\ Claimable(user_stake[u]) = account.rewards_earned + before
      /\ Claimable(user_stake[u])' = account.rewards_earned + after
  BY DEF Claimable, RewardsSince
<1> HIDE DEF before, after
<1> QED BY <1>1, <1>2, <1>3

\* A user's own stake only moves what was earned into the account.
LEMMA OwnStakeKeepsRewards ==
  ASSUME StakingInv, StakingInv', NEW u \in User, NEW amount \in Amounts, stake(u, amount),
         rewards_per_token_stored' = rewards_per_token_stored
  PROVE  ~ (Claimable(user_stake[u])' < Claimable(user_stake[u]))
<1>1. /\ user_stake'[u] \in UserStake
      /\ rewards_per_token_stored \in Nat
  BY DEF StakingInv, AccountsTyped
<1>2. /\ user_stake'[u].rewards_per_token_paid = rewards_per_token_stored
      /\ user_stake'[u].rewards_earned = Claimable(user_stake[u])
  BY StakeEffect, ClaimableNat
<1>3. (user_stake'[u].staked_balance *
         (rewards_per_token_stored - user_stake'[u].rewards_per_token_paid)) \div PRECISION = 0
  BY <1>1, <1>2, NothingSinceCheckpoint
<1>4. Claimable(user_stake[u])' = Claimable(user_stake[u]) + 0
  BY <1>2, <1>3 DEF Claimable, RewardsSince
<1>5. Claimable(user_stake[u]) \in Nat
  BY ClaimableNat
<1> QED BY <1>4, <1>5

\* Stakes, unstakes and claims of others, deposits and distributions never lower
\* what a user can claim, for every history of rewards and every rounding.
THEOREM RewardsNeverTaken == StakingSpec => RewardsAreNotTaken
<1> DEFINE Loses(u) == Claimable(user_stake[u])' < Claimable(user_stake[u])
           Takes(u) == \/ user_stake'[u].total_claimed > user_stake[u].total_claimed
                       \/ user_stake'[u].staked_balance < user_stake[u].staked_balance
<1>1. ASSUME StakingInv, StakingInv', [StakingNext]_stakingVars, NEW u \in User
      PROVE  Loses(u) => Takes(u)
  <2>1. rewards_per_token_stored \in Nat
    BY <1>1 DEF StakingInv, AccountsTyped
  <2>2. CASE user_stake'[u] = user_stake[u] /\ rewards_per_token_stored' = rewards_per_token_stored
    BY <1>1, <2>1, <2>2, OthersKeepRewards
  <2>3. ASSUME NEW v \in User, NEW amount \in Amounts, stake(v, amount)
        PROVE  Loses(u) => Takes(u)
    <3>1. rewards_per_token_stored' = rewards_per_token_stored
      BY <2>3 DEF stake, rewardVars
    <3>2. CASE v # u
      BY <1>1, <2>2, <2>3, <3>1, <3>2, StakeEffect DEF OnlyAccountOf
    <3>3. CASE v = u
      BY <1>1, <2>3, <3>1, <3>3, OwnStakeKeepsRewards
    <3> QED BY <3>2, <3>3
  <2>4. ASSUME NEW v \in User, NEW amount \in Amounts, unstake(v, amount)
        PROVE  Loses(u) => Takes(u)
    <3>1. rewards_per_token_stored' = rewards_per_token_stored
      BY <2>4 DEF unstake
    <3> QED BY <1>1, <2>2, <2>4, <3>1, UnstakeEffect DEF OnlyAccountOf
  <2>5. ASSUME NEW v \in User, claim(v)
        PROVE  Loses(u) => Takes(u)
    <3>1. rewards_per_token_stored' = rewards_per_token_stored
      BY <2>5 DEF claim, rewardVars
    <3> QED BY <1>1, <2>2, <2>5, <3>1, ClaimEffect DEF OnlyAccountOf
  <2>6. ASSUME NEW epoch \in 1..MaxRewardEpoch, update_cumulative(epoch)
        PROVE  Loses(u) => Takes(u)
    <3>1. user_stake' = user_stake
      BY <2>6 DEF update_cumulative
    <3> QED BY <1>1, <2>6, <3>1, CumulativeGrows, OthersKeepRewards
  <2>7. CASE TimePasses \/ UNCHANGED stakingVars \/ \E amount \in Rewards : deposit_rewards(amount)
    BY <2>2, <2>7 DEF TimePasses, deposit_rewards, stakingVars, rewardVars
  <2> QED BY <1>1, <2>3, <2>4, <2>5, <2>6, <2>7 DEF StakingNext
<1> DEFINE NotTaken == \A u \in User : Loses(u) => Takes(u)
<1>2. StakingInv /\ StakingInv' /\ [StakingNext]_stakingVars => [NotTaken]_stakingVars
  BY <1>1
<1>3. RewardsAreNotTaken <=> [][NotTaken]_stakingVars
  BY DEF RewardsAreNotTaken
<1> HIDE DEF NotTaken
<1>4. StakingSpec => [][NotTaken]_stakingVars
  BY <1>2, StakingInvariant, PTL DEF StakingSpec
<1> QED BY <1>3, <1>4
------------------------------------------------------------------------------
(***************************************************************************)
(* The balances.  Sums over all the users relate the accounts to the       *)
(* vaults.  A claim is rounded down, so the escrow is measured against     *)
(* what it owes before rounding, in units of 1/PRECISION lamport.          *)
(***************************************************************************)
Owed(account) ==
  PRECISION * account.rewards_earned
    + account.staked_balance * (rewards_per_token_stored - account.rewards_per_token_paid)

Debts    == [u \in User |-> Owed(user_stake[u])]
Balances == [u \in User |-> user_stake[u].staked_balance]

\* The escrow, its rent set aside, covers the rewards not yet distributed and
\* everything it owes.
EscrowCoversDebts ==
  PRECISION * (escrow_vault - ESCROW_RENT) >=
    PRECISION * pending_rewards + SumFunction(Debts)

VaultsTyped ==
  /\ total_staked \in Nat
  /\ stake_vault \in Nat
  /\ last_update_epoch \in Nat
  /\ total_distributed \in Nat
  /\ total_claimed \in Nat
  /\ escrow_vault \in Nat
  /\ escrow_vault >= ESCROW_RENT

SolvencyInv == VaultsTyped /\ StakeIsBacked /\ EscrowCoversDebts

\* What is owed is a natural number, at least PRECISION times what can be claimed.
LEMMA OwedCoversClaim ==
  ASSUME StakingInv, NEW u \in User
  PROVE  /\ Owed(user_stake[u]) \in Nat
         /\ PRECISION * Claimable(user_stake[u]) <= Owed(user_stake[u])
<1> DEFINE account == user_stake[u]
           growth  == account.staked_balance *
                        (rewards_per_token_stored - account.rewards_per_token_paid)
           credit  == RewardsSince(account)
           earned  == account.rewards_earned
<1>1. /\ PRECISION \in Nat \ {0}
      /\ account.staked_balance \in Nat
      /\ account.rewards_per_token_paid \in Nat
      /\ earned \in Nat
      /\ rewards_per_token_stored \in Nat
      /\ account.rewards_per_token_paid <= rewards_per_token_stored
  BY StakingAssumption DEF StakingInv, AccountsTyped, CheckpointsAreBehind, UserStake
<1>2. growth \in Nat
  <2>1. rewards_per_token_stored - account.rewards_per_token_paid \in Nat
    BY <1>1
  <2> QED BY <1>1, <2>1, ProductNat
<1>3. /\ credit \in Nat /\ Claimable(account) = earned + credit
      /\ credit = growth \div PRECISION
  BY ClaimableNat DEF RewardsSince
<1>4. Owed(account) = PRECISION * earned + growth
  BY DEF Owed
<1> HIDE DEF growth, credit, earned
<1>5. PRECISION * credit <= growth /\ PRECISION * credit \in Nat
  BY <1>1, <1>2, <1>3, DivBounds, ProductNat
<1>6. PRECISION * earned \in Nat
  BY <1>1, ProductNat
<1>7. PRECISION * (earned + credit) = PRECISION * earned + PRECISION * credit
  BY <1>1, <1>3
<1> QED BY <1>2, <1>3, <1>4, <1>5, <1>6, <1>7

\* The two sums are natural numbers.
LEMMA SumsTyped ==
  ASSUME StakingInv
  PROVE  /\ Debts \in [User -> Nat] /\ SumFunction(Debts) \in Nat
         /\ Balances \in [User -> Nat] /\ SumFunction(Balances) \in Nat
<1>1. IsFiniteSet(User)
  BY StakingAssumption
<1>2. Debts \in [User -> Nat]
  BY OwedCoversClaim DEF Debts
<1>3. Balances \in [User -> Nat]
  BY DEF Balances, StakingInv, AccountsTyped, UserStake
<1> QED BY <1>1, <1>2, <1>3, SumNat

\* A user's instruction, which leaves the user's account level with the pool,
\* changes the sums by what it changes in that account.
LEMMA OwnAccountInSums ==
  ASSUME StakingInv, StakingInv', NEW u \in User, OnlyAccountOf(u),
         rewards_per_token_stored' = rewards_per_token_stored,
         user_stake'[u].rewards_per_token_paid = rewards_per_token_stored
  PROVE  /\ SumFunction(Balances)' =
              SumFunction(Balances) - user_stake[u].staked_balance + user_stake'[u].staked_balance
         /\ user_stake[u].staked_balance <= SumFunction(Balances)
         /\ SumFunction(Debts)' =
              SumFunction(Debts) - Owed(user_stake[u]) + PRECISION * user_stake'[u].rewards_earned
         /\ Owed(user_stake[u]) <= SumFunction(Debts)
<1> DEFINE balance == user_stake'[u].staked_balance
           debt    == PRECISION * user_stake'[u].rewards_earned
<1>1. IsFiniteSet(User) /\ PRECISION \in Nat
  BY StakingAssumption
<1>2. /\ Debts \in [User -> Nat] /\ Balances \in [User -> Nat]
      /\ Debts[u] = Owed(user_stake[u]) /\ Balances[u] = user_stake[u].staked_balance
  BY SumsTyped DEF Debts, Balances
<1>3. balance \in Nat /\ user_stake'[u].rewards_earned \in Nat
      /\ rewards_per_token_stored \in Nat
  BY DEF StakingInv, AccountsTyped, UserStake
<1>4. debt \in Nat
  BY <1>1, <1>3, ProductNat
<1>5. Balances' = [Balances EXCEPT ![u] = balance]
  BY DEF Balances, OnlyAccountOf
<1>6. Debts' = [Debts EXCEPT ![u] = debt]
  <2>1. Owed(user_stake[u])' = debt
    <3>1. rewards_per_token_stored' - user_stake'[u].rewards_per_token_paid = 0
      BY <1>3
    <3>2. balance * 0 = 0
      BY <1>3
    <3>3. Owed(user_stake[u])' = debt + balance * 0
      BY <3>1 DEF Owed
    <3> QED BY <1>4, <3>2, <3>3
  <2>2. \A v \in User \ {u} : Owed(user_stake[v])' = Owed(user_stake[v])
    BY DEF Owed, OnlyAccountOf
  <2> HIDE DEF debt
  <2> QED BY <2>1, <2>2 DEF Debts
<1> HIDE DEF balance, debt
<1>7. /\ SumFunction([Balances EXCEPT ![u] = balance]) = SumFunction(Balances) - Balances[u] + balance
      /\ Balances[u] <= SumFunction(Balances)
  BY <1>1, <1>2, <1>3, SumUpdate
<1>8. /\ SumFunction([Debts EXCEPT ![u] = debt]) = SumFunction(Debts) - Debts[u] + debt
      /\ Debts[u] <= SumFunction(Debts)
  BY <1>1, <1>2, <1>4, SumUpdate
<1>9. SumFunction(Balances)' = SumFunction(Balances') /\ SumFunction(Debts)' = SumFunction(Debts')
  OBVIOUS
<1> QED BY <1>2, <1>5, <1>6, <1>7, <1>8, <1>9 DEF balance, debt

\* A new pool holds the dead stake, and owes nothing.
LEMMA SolvencyInit ==
  ASSUME InitStaking
  PROVE  SolvencyInv
<1>1. StakingInv
  BY StakingInit
<1>2. /\ IsFiniteSet(User) /\ PRECISION \in Nat /\ MINIMUM_STAKE \in Nat
      /\ ESCROW_RENT \in Nat
  BY StakingAssumption
<1>3. Debts \in [User -> Nat] /\ Balances \in [User -> Nat]
  BY <1>1, SumsTyped
<1>4. \A u \in User : Debts[u] = 0 /\ Balances[u] = 0
  <2> SUFFICES ASSUME NEW u \in User PROVE Debts[u] = 0 /\ Balances[u] = 0
    OBVIOUS
  <2>1. /\ user_stake[u].rewards_earned = 0 /\ user_stake[u].staked_balance = 0
        /\ user_stake[u].rewards_per_token_paid = 0 /\ rewards_per_token_stored = 0
    BY DEF InitStaking, NewUserStake
  <2>2. PRECISION * 0 + 0 * (0 - 0) = 0
    BY <1>2
  <2> QED BY <2>1, <2>2 DEF Debts, Balances, Owed
<1>5. SumFunction(Debts) = 0 /\ SumFunction(Balances) = 0
  BY <1>2, <1>3, <1>4, SumNat
<1>6. VaultsTyped
  BY <1>2 DEF InitStaking, VaultsTyped
<1>7. StakeIsBacked
  BY <1>2, <1>5 DEF InitStaking, StakeIsBacked, Balances
<1>8. EscrowCoversDebts
  <2>1. PRECISION * (ESCROW_RENT - ESCROW_RENT) = 0 /\ PRECISION * 0 = 0
    BY <1>2
  <2>2. escrow_vault = ESCROW_RENT /\ pending_rewards = 0
    BY DEF InitStaking
  <2> QED BY <1>5, <2>1, <2>2 DEF EscrowCoversDebts
<1> QED BY <1>6, <1>7, <1>8 DEF SolvencyInv

\* The amounts a step adds and takes, PRECISION times each.
LEMMA ScaledAmounts ==
  ASSUME StakingInv, SolvencyInv, NEW amount \in Nat
  PROVE  /\ PRECISION * amount \in Nat
         /\ PRECISION * pending_rewards \in Nat
         /\ PRECISION * (escrow_vault - ESCROW_RENT) \in Nat
         /\ PRECISION * (pending_rewards + amount) =
              PRECISION * pending_rewards + PRECISION * amount
         /\ PRECISION * (escrow_vault + amount - ESCROW_RENT) =
              PRECISION * (escrow_vault - ESCROW_RENT) + PRECISION * amount
         /\ PRECISION * (escrow_vault - amount - ESCROW_RENT) =
              PRECISION * (escrow_vault - ESCROW_RENT) - PRECISION * amount
<1>1. /\ PRECISION \in Nat /\ ESCROW_RENT \in Nat /\ pending_rewards \in Nat
      /\ escrow_vault \in Nat /\ escrow_vault - ESCROW_RENT \in Nat
  BY StakingAssumption DEF StakingInv, AccountsTyped, SolvencyInv, VaultsTyped
<1>2. /\ PRECISION * amount \in Nat /\ PRECISION * pending_rewards \in Nat
      /\ PRECISION * (escrow_vault - ESCROW_RENT) \in Nat
  BY <1>1, ProductNat
<1>3. PRECISION * (pending_rewards + amount) = PRECISION * pending_rewards + PRECISION * amount
  BY <1>1
<1>4. PRECISION * (escrow_vault + amount - ESCROW_RENT) =
        PRECISION * (escrow_vault - ESCROW_RENT) + PRECISION * amount
  BY <1>1
<1>5. PRECISION * (escrow_vault - amount - ESCROW_RENT) =
        PRECISION * (escrow_vault - ESCROW_RENT) - PRECISION * amount
  BY <1>1
<1> QED BY <1>2, <1>3, <1>4, <1>5

\* A stake settles what the account is owed, rounded down.
LEMMA StakeKeepsSolvency ==
  ASSUME StakingInv, StakingInv', SolvencyInv,
         NEW u \in User, NEW amount \in Amounts, stake(u, amount)
  PROVE  SolvencyInv'
<1> DEFINE balance == user_stake[u].staked_balance
           claimed == Claimable(user_stake[u])
<1>1. /\ total_staked' = total_staked + amount
      /\ stake_vault' = stake_vault + amount
      /\ UNCHANGED <<rewards_per_token_stored, pending_rewards, total_distributed,
                     total_claimed, last_update_epoch, escrow_vault>>
  BY DEF stake, rewardVars, totalVars
<1>2. /\ amount \in Nat /\ balance \in Nat /\ MINIMUM_STAKE \in Nat
      /\ claimed \in Nat /\ Owed(user_stake[u]) \in Nat
  BY StakingAssumption, ClaimableNat, OwedCoversClaim
     DEF StakingInv, AccountsTyped, UserStake
<1>3. /\ OnlyAccountOf(u)
      /\ user_stake'[u].staked_balance = balance + amount
      /\ user_stake'[u].rewards_per_token_paid = rewards_per_token_stored
      /\ user_stake'[u].rewards_earned = claimed
  BY StakeEffect, ClaimableNat
<1> HIDE DEF balance, claimed
<1>4. /\ SumFunction(Balances)' = SumFunction(Balances) - balance + (balance + amount)
      /\ SumFunction(Debts)' = SumFunction(Debts) - Owed(user_stake[u]) + PRECISION * claimed
  BY <1>1, <1>3, OwnAccountInSums DEF balance
<1>5. SumFunction(Balances) \in Nat /\ SumFunction(Debts) \in Nat
  BY SumsTyped
<1>6. VaultsTyped'
  BY <1>1, <1>2 DEF SolvencyInv, VaultsTyped
<1>7. StakeIsBacked'
  BY <1>1, <1>2, <1>4, <1>5 DEF SolvencyInv, StakeIsBacked, Balances
<1>8. EscrowCoversDebts'
  <2>1. PRECISION * claimed <= Owed(user_stake[u])
    BY OwedCoversClaim DEF claimed
  <2>2. SumFunction(Debts)' <= SumFunction(Debts)
    BY <1>2, <1>4, <1>5, <2>1, ScaledAmounts
  <2> QED BY <1>1, <1>2, <1>4, <1>5, <2>2, ScaledAmounts DEF SolvencyInv, EscrowCoversDebts
<1> QED BY <1>6, <1>7, <1>8 DEF SolvencyInv

\* An unstake turns what the account could claim into rewards for everyone.
LEMMA UnstakeKeepsSolvency ==
  ASSUME StakingInv, StakingInv', SolvencyInv,
         NEW u \in User, NEW requested \in Amounts, unstake(u, requested)
  PROVE  SolvencyInv'
<1> DEFINE before  == user_stake[u].staked_balance
           after   == user_stake'[u].staked_balance
           claimed == Claimable(user_stake[u])
<1>1. UNCHANGED <<rewards_per_token_stored, total_distributed, total_claimed,
                  last_update_epoch, escrow_vault>>
  BY DEF unstake, totalVars
<1>2. /\ before \in Nat /\ after \in Nat /\ MINIMUM_STAKE \in Nat
      /\ claimed \in Nat /\ Owed(user_stake[u]) \in Nat
  BY StakingAssumption, ClaimableNat, OwedCoversClaim
     DEF StakingInv, AccountsTyped, UserStake
<1>3. /\ OnlyAccountOf(u)
      /\ after < before
      /\ user_stake'[u].rewards_per_token_paid = rewards_per_token_stored
      /\ user_stake'[u].rewards_earned = 0
      /\ pending_rewards' = pending_rewards + claimed
      /\ total_staked' = total_staked - (before - after)
      /\ stake_vault' = stake_vault - (before - after)
  BY UnstakeEffect
<1> HIDE DEF before, after, claimed
<1>4. /\ SumFunction(Balances)' = SumFunction(Balances) - before + after
      /\ before <= SumFunction(Balances)
      /\ SumFunction(Debts)' = SumFunction(Debts) - Owed(user_stake[u]) + PRECISION * 0
      /\ Owed(user_stake[u]) <= SumFunction(Debts)
  BY <1>1, <1>3, OwnAccountInSums DEF before, after
<1>5. SumFunction(Balances) \in Nat /\ SumFunction(Debts) \in Nat
  BY SumsTyped
<1>6. StakeIsBacked'
  BY <1>2, <1>3, <1>4, <1>5 DEF SolvencyInv, VaultsTyped, StakeIsBacked, Balances
<1>7. VaultsTyped'
  <2>1. total_staked' \in Nat /\ stake_vault' \in Nat
    BY <1>2, <1>3, <1>4, <1>5 DEF SolvencyInv, VaultsTyped, StakeIsBacked, Balances
  <2> QED BY <1>1, <2>1 DEF SolvencyInv, VaultsTyped
<1>8. EscrowCoversDebts'
  <2>1. PRECISION * claimed <= Owed(user_stake[u])
    BY OwedCoversClaim DEF claimed
  <2>2. PRECISION * 0 = 0
    BY StakingAssumption
  <2>3. PRECISION * pending_rewards' = PRECISION * pending_rewards + PRECISION * claimed
    BY <1>2, <1>3, ScaledAmounts
  <2>4. PRECISION * pending_rewards' + SumFunction(Debts)' <=
          PRECISION * pending_rewards + SumFunction(Debts)
    BY <1>2, <1>4, <1>5, <2>1, <2>2, <2>3, ScaledAmounts
  <2>5. /\ PRECISION * pending_rewards' \in Nat
        /\ SumFunction(Debts)' \in Nat
    BY <1>2, <1>4, <1>5, <2>2, <2>3, ScaledAmounts
  <2> QED BY <1>1, <1>2, <1>5, <2>4, <2>5, ScaledAmounts DEF SolvencyInv, EscrowCoversDebts
<1> QED BY <1>6, <1>7, <1>8 DEF SolvencyInv

\* A claim pays at most what is owed.
LEMMA ClaimKeepsSolvency ==
  ASSUME StakingInv, StakingInv', SolvencyInv, NEW u \in User, claim(u)
  PROVE  SolvencyInv'
<1> DEFINE balance == user_stake[u].staked_balance
           claimed == Claimable(user_stake[u])
<1>1. UNCHANGED <<rewards_per_token_stored, pending_rewards, total_distributed,
                  last_update_epoch, total_staked, stake_vault>>
  BY DEF claim, rewardVars, tokenVars
<1>2. /\ balance \in Nat /\ ESCROW_RENT \in Nat /\ escrow_vault \in Nat
      /\ claimed \in Nat /\ Owed(user_stake[u]) \in Nat
  BY StakingAssumption, ClaimableNat, OwedCoversClaim
     DEF StakingInv, AccountsTyped, UserStake, SolvencyInv, VaultsTyped
<1>3. /\ OnlyAccountOf(u)
      /\ user_stake'[u].staked_balance = balance
      /\ user_stake'[u].rewards_per_token_paid = rewards_per_token_stored
      /\ user_stake'[u].rewards_earned = 0
      /\ claimed <= saturating_sub(escrow_vault, ESCROW_RENT)
      /\ escrow_vault' = escrow_vault - claimed
      /\ total_claimed' = total_claimed + claimed
  BY ClaimEffect
<1> HIDE DEF balance, claimed
<1>4. /\ SumFunction(Balances)' = SumFunction(Balances) - balance + balance
      /\ SumFunction(Debts)' = SumFunction(Debts) - Owed(user_stake[u]) + PRECISION * 0
      /\ Owed(user_stake[u]) <= SumFunction(Debts)
  BY <1>1, <1>3, OwnAccountInSums DEF balance
<1>5. SumFunction(Balances) \in Nat /\ SumFunction(Debts) \in Nat
  BY SumsTyped
<1>6. VaultsTyped'
  <2>1. claimed <= escrow_vault - ESCROW_RENT
    BY <1>2, <1>3 DEF saturating_sub, SolvencyInv, VaultsTyped
  <2>2. escrow_vault' \in Nat /\ escrow_vault' >= ESCROW_RENT
    BY <1>2, <1>3, <2>1
  <2>3. total_claimed' \in Nat
    BY <1>2, <1>3 DEF SolvencyInv, VaultsTyped
  <2> QED BY <1>1, <2>2, <2>3 DEF SolvencyInv, VaultsTyped
<1>7. StakeIsBacked'
  <2>1. SumFunction(Balances)' = SumFunction(Balances)
    BY <1>2, <1>4, <1>5
  <2> QED BY <1>1, <2>1 DEF SolvencyInv, StakeIsBacked, Balances
<1>8. EscrowCoversDebts'
  <2>1. PRECISION * claimed <= Owed(user_stake[u])
    BY OwedCoversClaim DEF claimed
  <2>2. PRECISION * 0 = 0
    BY StakingAssumption
  <2>3. PRECISION * (escrow_vault' - ESCROW_RENT) =
          PRECISION * (escrow_vault - ESCROW_RENT) - PRECISION * claimed
    BY <1>2, <1>3, ScaledAmounts
  <2>4. SumFunction(Debts)' <= SumFunction(Debts) - PRECISION * claimed
    BY <1>2, <1>4, <1>5, <2>1, <2>2, ScaledAmounts
  <2>5. SumFunction(Debts)' \in Nat
    BY <1>2, <1>4, <1>5, <2>2
  <2> QED BY <1>1, <1>2, <1>5, <2>3, <2>4, <2>5, ScaledAmounts DEF SolvencyInv, EscrowCoversDebts
<1> QED BY <1>6, <1>7, <1>8 DEF SolvencyInv

\* A deposit arrives in the escrow and among the rewards to distribute.
LEMMA DepositKeepsSolvency ==
  ASSUME StakingInv, SolvencyInv, NEW amount \in Rewards, deposit_rewards(amount)
  PROVE  SolvencyInv'
<1>1. /\ UNCHANGED <<user_stake, rewards_per_token_stored, total_distributed, total_claimed,
                     last_update_epoch, total_staked, stake_vault>>
      /\ escrow_vault' = escrow_vault + amount
      /\ pending_rewards' = pending_rewards + amount
  BY DEF deposit_rewards, tokenVars, totalVars
<1>2. /\ amount \in Nat /\ ESCROW_RENT \in Nat /\ PRECISION \in Nat
      /\ escrow_vault \in Nat /\ pending_rewards \in Nat
  BY StakingAssumption DEF StakingInv, AccountsTyped, SolvencyInv, VaultsTyped
<1>3. SumFunction(Debts)' = SumFunction(Debts) /\ SumFunction(Debts) \in Nat
  BY <1>1, SumsTyped DEF Debts, Owed
<1>4. VaultsTyped'
  BY <1>1, <1>2 DEF SolvencyInv, VaultsTyped
<1>5. StakeIsBacked'
  BY <1>1 DEF SolvencyInv, StakeIsBacked
<1>6. EscrowCoversDebts'
  <2>1. /\ PRECISION * pending_rewards' = PRECISION * pending_rewards + PRECISION * amount
        /\ PRECISION * (escrow_vault' - ESCROW_RENT) =
             PRECISION * (escrow_vault - ESCROW_RENT) + PRECISION * amount
    <3>1. escrow_vault' = escrow_vault + amount /\ pending_rewards' = pending_rewards + amount
      BY <1>1
    <3> QED BY <1>2, <3>1, ScaledAmounts
  <2>2. PRECISION * (escrow_vault - ESCROW_RENT) >= PRECISION * pending_rewards + SumFunction(Debts)
    BY DEF SolvencyInv, EscrowCoversDebts
  <2> QED BY <1>2, <1>3, <2>1, <2>2, ScaledAmounts DEF EscrowCoversDebts
<1> QED BY <1>4, <1>5, <1>6 DEF SolvencyInv

\* A distribution promises the stakers at most what was waiting for it: the dead
\* stake's share, and what the rounding drops, stay in the escrow.
LEMMA DistributionKeepsSolvency ==
  ASSUME StakingInv, StakingInv', SolvencyInv,
         NEW epoch \in 1..MaxRewardEpoch, update_cumulative(epoch)
  PROVE  SolvencyInv'
<1>1. /\ UNCHANGED <<user_stake, total_claimed, total_staked, stake_vault, escrow_vault>>
      /\ pending_rewards' = 0
      /\ last_update_epoch' = epoch
  BY DEF update_cumulative, tokenVars
<1>2. /\ IsFiniteSet(User)
      /\ PRECISION \in Nat /\ MINIMUM_STAKE \in Nat /\ MINIMUM_STAKE > 0 /\ MaxRewardEpoch \in Nat
      /\ pending_rewards \in Nat /\ total_staked \in Nat
      /\ rewards_per_token_stored \in Nat
      /\ total_distributed \in Nat
  BY StakingAssumption DEF StakingInv, AccountsTyped, SolvencyInv, VaultsTyped
<1>3. /\ Debts \in [User -> Nat] /\ SumFunction(Debts) \in Nat
      /\ Balances \in [User -> Nat] /\ SumFunction(Balances) \in Nat
  BY SumsTyped
<1>4. total_staked = MINIMUM_STAKE + SumFunction(Balances)
  BY DEF SolvencyInv, StakeIsBacked, Balances
<1>5. VaultsTyped'
  <2>1. total_distributed' \in Nat
    <3>1. total_distributed' = total_distributed + pending_rewards
            \/ total_distributed' = total_distributed
      BY DEF update_cumulative
    <3> QED BY <1>2, <3>1
  <2>2. last_update_epoch' \in Nat
    BY <1>1, <1>2
  <2> QED BY <1>1, <2>1, <2>2 DEF SolvencyInv, VaultsTyped
<1>6. StakeIsBacked'
  BY <1>1 DEF SolvencyInv, StakeIsBacked
<1>7. /\ SumFunction(Debts') \in Nat
      /\ SumFunction(Debts') <= PRECISION * pending_rewards + SumFunction(Debts)
  <2>1. CASE pending_rewards > 0
    <3> DEFINE d == RewardPerToken
    <3>1. total_staked > 0
      BY <1>2, <1>3, <1>4
    <3>2. rewards_per_token_stored' = rewards_per_token_stored + d
      BY <2>1, <3>1 DEF update_cumulative
    <3>3. d \in Nat /\ total_staked * d <= pending_rewards * PRECISION
      <4>1. pending_rewards * PRECISION \in Nat /\ total_staked \in Nat \ {0}
        BY <1>2, <3>1, ProductNat
      <4> QED BY <4>1, DivNat, DivBounds DEF RewardPerToken
    <3> HIDE DEF d
    <3>4. \A u \in User : Debts'[u] = Debts[u] + d * Balances[u]
      <4> SUFFICES ASSUME NEW u \in User PROVE Debts'[u] = Debts[u] + d * Balances[u]
        OBVIOUS
      <4> DEFINE account == user_stake[u]
                 gap     == rewards_per_token_stored - account.rewards_per_token_paid
                 earned  == PRECISION * account.rewards_earned
                 balance == account.staked_balance
      <4>1. /\ account.rewards_per_token_paid \in Nat
            /\ account.rewards_per_token_paid <= rewards_per_token_stored
            /\ account.rewards_earned \in Nat /\ balance \in Nat
        BY DEF StakingInv, AccountsTyped, CheckpointsAreBehind, UserStake
      <4>2. gap \in Nat /\ earned \in Nat
        BY <1>2, <4>1, ProductNat
      <4>3. rewards_per_token_stored' - account.rewards_per_token_paid = gap + d
        BY <1>2, <3>2, <3>3, <4>1
      <4>4. /\ Debts[u] = earned + balance * gap
            /\ Debts'[u] = earned + balance * (gap + d)
            /\ Balances[u] = balance
        BY <1>1, <4>3 DEF Debts, Balances, Owed
      <4> HIDE DEF gap, earned, balance
      <4>5. balance * (gap + d) = balance * gap + d * balance
        BY <3>3, <4>1, <4>2
      <4>6. balance * gap \in Nat /\ d * balance \in Nat
        BY <3>3, <4>1, <4>2, ProductNat
      <4> QED BY <4>2, <4>4, <4>5, <4>6
    <3>5. Debts' \in [User -> Nat]
      <4>1. DOMAIN Debts' = User /\ Debts' = [u \in User |-> Debts'[u]]
        BY DEF Debts
      <4>2. \A u \in User : Debts[u] + d * Balances[u] \in Nat
        BY <1>3, <3>3, ProductNat
      <4> QED BY <3>4, <4>1, <4>2
    <3>8. SumFunction(Debts') = SumFunction(Debts) + d * SumFunction(Balances)
      BY <1>2, <1>3, <3>3, <3>4, <3>5, SumLinear
    <3>6. d * SumFunction(Balances) <= total_staked * d
      <4>1. total_staked * d = d * MINIMUM_STAKE + d * SumFunction(Balances)
        BY <1>2, <1>3, <1>4, <3>3
      <4>2. d * MINIMUM_STAKE \in Nat /\ d * SumFunction(Balances) \in Nat
        BY <1>2, <1>3, <3>3, ProductNat
      <4> QED BY <4>1, <4>2
    <3>7. /\ d * SumFunction(Balances) \in Nat /\ total_staked * d \in Nat
          /\ pending_rewards * PRECISION \in Nat
          /\ pending_rewards * PRECISION = PRECISION * pending_rewards
      BY <1>2, <1>3, <3>3, ProductNat
    <3> QED BY <1>3, <3>3, <3>6, <3>7, <3>8
  <2>2. CASE pending_rewards = 0
    <3>1. rewards_per_token_stored' = rewards_per_token_stored
      BY <2>2 DEF update_cumulative
    <3>2. Debts' = Debts
      BY <1>1, <3>1 DEF Debts, Owed
    <3>3. PRECISION * 0 = 0
      BY <1>2
    <3> QED BY <1>3, <2>2, <3>2, <3>3
  <2> QED BY <1>2, <2>1, <2>2
<1>8. EscrowCoversDebts'
  <2>1. PRECISION * 0 = 0
    BY <1>2
  <2>2. PRECISION * pending_rewards' + SumFunction(Debts') = SumFunction(Debts')
    BY <1>1, <1>7, <2>1
  <2>3. PRECISION * (escrow_vault - ESCROW_RENT) >= PRECISION * pending_rewards + SumFunction(Debts)
    BY DEF SolvencyInv, EscrowCoversDebts
  <2>4. PRECISION * (escrow_vault - ESCROW_RENT) \in Nat /\ PRECISION * pending_rewards \in Nat
    BY ScaledAmounts
  <2>5. PRECISION * (escrow_vault - ESCROW_RENT) >= SumFunction(Debts')
    BY <1>3, <1>7, <2>3, <2>4
  <2> QED BY <1>1, <2>2, <2>5 DEF EscrowCoversDebts
<1> QED BY <1>5, <1>6, <1>8 DEF SolvencyInv

\* Every step keeps the pool solvent.
LEMMA SolvencyStep ==
  ASSUME StakingInv, StakingInv', SolvencyInv, [StakingNext]_stakingVars
  PROVE  SolvencyInv'
<1>1. CASE TimePasses \/ UNCHANGED stakingVars
  BY <1>1 DEF TimePasses, stakingVars, tokenVars, rewardVars, totalVars, SolvencyInv, VaultsTyped,
              StakeIsBacked, EscrowCoversDebts, Debts, Owed
<1>2. ASSUME NEW u \in User, NEW amount \in Amounts, stake(u, amount)
      PROVE  SolvencyInv'
  BY <1>2, StakeKeepsSolvency
<1>3. ASSUME NEW u \in User, NEW amount \in Amounts, unstake(u, amount)
      PROVE  SolvencyInv'
  BY <1>3, UnstakeKeepsSolvency
<1>4. ASSUME NEW u \in User, claim(u)
      PROVE  SolvencyInv'
  BY <1>4, ClaimKeepsSolvency
<1>5. ASSUME NEW amount \in Rewards, deposit_rewards(amount)
      PROVE  SolvencyInv'
  BY <1>5, DepositKeepsSolvency
<1>6. ASSUME NEW epoch \in 1..MaxRewardEpoch, update_cumulative(epoch)
      PROVE  SolvencyInv'
  BY <1>6, DistributionKeepsSolvency
<1> QED BY <1>1, <1>2, <1>3, <1>4, <1>5, <1>6 DEF StakingNext

LEMMA SolvencyInvariant == StakingSpec => []SolvencyInv
<1>1. InitStaking => SolvencyInv
  BY SolvencyInit
<1>2. StakingInv /\ StakingInv' /\ SolvencyInv /\ [StakingNext]_stakingVars => SolvencyInv'
  BY SolvencyStep
<1> QED BY <1>1, <1>2, StakingInvariant, PTL DEF StakingSpec

\* Every amount the pool keeps is a natural number: no checked subtraction of an
\* instruction that passes its guards fails.
THEOREM StakingTyped == StakingSpec => []StakingTypeOK
<1>1. StakingInv /\ SolvencyInv => StakingTypeOK
  BY DEF StakingInv, AccountsTyped, SolvencyInv, VaultsTyped, StakingTypeOK
<1> QED BY <1>1, StakingInvariant, SolvencyInvariant, PTL

\* The stake on record is the dead stake and the sum of the users' stakes, and
\* the vault holds it, for every number of users.
THEOREM StakeAlwaysBacked == StakingSpec => []StakeIsBacked
<1>1. SolvencyInv => StakeIsBacked
  BY DEF SolvencyInv
<1> QED BY <1>1, SolvencyInvariant, PTL

\* The escrow covers the undistributed rewards and every user's claim at once,
\* however the distributions and checkpoints were rounded.
THEOREM EscrowAlwaysCoversClaims == StakingSpec => []EscrowCoversClaims
<1>1. ASSUME StakingInv, SolvencyInv
      PROVE  EscrowCoversClaims
  <2> DEFINE Claims == [u \in User |-> Claimable(user_stake[u])]
             Scaled == [u \in User |-> PRECISION * Claims[u]]
             zero   == [u \in User |-> 0]
             spare  == escrow_vault - ESCROW_RENT
             total  == SumFunction(Claims)
  <2>1. /\ IsFiniteSet(User) /\ PRECISION \in Nat /\ PRECISION > 0
        /\ ESCROW_RENT \in Nat /\ pending_rewards \in Nat /\ spare \in Nat
    BY <1>1, StakingAssumption DEF StakingInv, AccountsTyped, SolvencyInv, VaultsTyped
  <2>2. Claims \in [User -> Nat] /\ zero \in [User -> Nat]
    BY <1>1, ClaimableNat
  <2>3. /\ Scaled \in [User -> Nat]
        /\ \A u \in User : Scaled[u] = zero[u] + PRECISION * Claims[u]
    <3> HIDE DEF Claims
    <3>1. \A u \in User : PRECISION * Claims[u] \in Nat
      BY <2>1, <2>2, ProductNat
    <3> QED BY <3>1
  <2>4. \A u \in User : Scaled[u] <= Debts[u]
    BY <1>1, OwedCoversClaim DEF Debts
  <2>5. Debts \in [User -> Nat] /\ SumFunction(Debts) \in Nat
    BY <1>1, SumsTyped
  <2>6. SumFunction(zero) = 0
    BY <2>1, <2>2, SumNat
  <2>7. PRECISION * spare >= PRECISION * pending_rewards + SumFunction(Debts)
    BY <1>1 DEF SolvencyInv, EscrowCoversDebts
  <2> HIDE DEF Claims, Scaled, zero, spare
  <2>8. total \in Nat
    BY <2>1, <2>2, SumNat
  <2>9. SumFunction(Scaled) = SumFunction(zero) + PRECISION * total
    BY <2>1, <2>2, <2>3, SumLinear
  <2>10. SumFunction(Scaled) <= SumFunction(Debts)
    BY <2>1, <2>3, <2>4, <2>5, SumMonotone
  <2> HIDE DEF total
  <2>11. /\ PRECISION * spare \in Nat /\ PRECISION * pending_rewards \in Nat
         /\ PRECISION * total \in Nat
    BY <2>1, <2>8, ProductNat
  <2>12. PRECISION * spare >= PRECISION * pending_rewards + PRECISION * total
    BY <2>5, <2>6, <2>7, <2>9, <2>10, <2>11
  <2>13. spare >= pending_rewards + total
    <3> SUFFICES ASSUME spare < pending_rewards + total PROVE FALSE
      BY <2>1, <2>8
    <3>1. PICK short \in Nat : pending_rewards + total = spare + 1 + short
      <4>1. pending_rewards + total - spare - 1 \in Nat
        BY <2>1, <2>8
      <4> QED BY <2>1, <2>8, <4>1
    <3>2. PRECISION * (pending_rewards + total) = PRECISION * pending_rewards + PRECISION * total
      BY <2>1, <2>8
    <3>3. PRECISION * (spare + 1 + short) = PRECISION * spare + PRECISION + PRECISION * short
      BY <2>1
    <3>4. PRECISION * short \in Nat
      BY <2>1, ProductNat
    <3> QED BY <2>1, <2>11, <2>12, <3>1, <3>2, <3>3, <3>4
  <2> QED BY <2>13 DEF EscrowCoversClaims, Claims, spare, total
<1> QED BY <1>1, StakingInvariant, SolvencyInvariant, PTL

==============================================================================
