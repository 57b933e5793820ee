\* Safety of the epoch program and of the staking program, part by part.
SPECIFICATION SpecParts
CONSTANTS
  Part = {"time", "carnage", "staking"}
  r1 = r1
  r2 = r2
  NoAccount = NoAccount
  RandomnessAccount <- TwoAccounts
  SLOTS_PER_EPOCH = 4
  VRF_TIMEOUT_SLOTS = 2
  CARNAGE_DEADLINE_SLOTS = 2
  CARNAGE_LOCK_SLOTS = 1
  TRIGGER_BOUNTY = 2
  RENT_EXEMPT_MIN = 3
  MAX_CARNAGE_SWAP = 200
  GenesisSlot = 1
  VrfSample <- AllVrf
  Reserves <- TwoPools
  Deposits <- LargeDeposit
  MaxSlot = 13
  MaxEpoch = 3
  MaxSolVault = 210
  User = {u1, u2}
  PRECISION = 10
  MINIMUM_STAKE = 2
  COOLDOWN_SECONDS = 2
  ESCROW_RENT = 2
  Amounts = {1, 3}
  Rewards = {5, 7}
  MaxTime = 3
  MaxRewardEpoch = 2
  Wallet = 3
  MaxDeposited = 12
SYMMETRY Users
INVARIANTS
  EpochTypeOK
  TaxesFollowCheapSide
  PendingMatchesStaking
  EpochFollowsClock
  ActionMatchesHoldings
  HoldingsAreInVault
  RentIsKept
  StakingTypeOK
  EscrowCoversClaims
  StakeIsBacked
PROPERTIES
  CarnageIsNotCancelled
  ImplementsLifecycle
  SpendingIsCapped
  RewardsAreNotTaken
  CooldownIsKept
  NoDustAfterUnstake
CHECK_DEADLOCK FALSE
