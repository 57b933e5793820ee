\* Comments of the program that its code contradicts: RatesAreLowOrHigh.
SPECIFICATION Spec
CONSTANTS
  SLOTS_PER_EPOCH = 2
  VRF_TIMEOUT_SLOTS = 1
  CARNAGE_DEADLINE_SLOTS = 1
  CARNAGE_LOCK_SLOTS = 0
  TRIGGER_BOUNTY = 2
  RENT_EXEMPT_MIN = 3
  MAX_CARNAGE_SWAP = 200
  GenesisSlot = 0
  RandomnessAccount = {r1}
  NoAccount = NoAccount
  VrfSample <- TimeVrf
  Reserves <- TwoPools
  Deposits <- LargeDeposit
  MaxSlot = 6
  MaxEpoch = 3
  MaxSolVault = 210
INVARIANTS
  RatesAreLowOrHigh
CHECK_DEADLOCK FALSE
