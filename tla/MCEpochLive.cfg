\* Liveness of the VRF request, the Carnage request and the epoch counter.  The
\* vault's dust makes the AMM refuse a purchase, and with it the crank's transaction.
SPECIFICATION FairSpec
CONSTANTS
  SLOTS_PER_EPOCH = 2
  VRF_TIMEOUT_SLOTS = 1
  CARNAGE_DEADLINE_SLOTS = 1
  CARNAGE_LOCK_SLOTS = 0
  TRIGGER_BOUNTY = 2
  RENT_EXEMPT_MIN = 3
  MAX_CARNAGE_SWAP = 10
  GenesisSlot = 0
  RandomnessAccount = {r1, r2}
  NoAccount = NoAccount
  VrfSample <- LiveVrf
  Reserves <- OnePool
  Deposits <- Dust
  MaxSlot = 7
  MaxEpoch = 2
  MaxSolVault = 4
PROPERTIES
  RequestsAreAnswered
  CarnagesAreResolved
  EpochsAdvance
CHECK_DEADLOCK FALSE
