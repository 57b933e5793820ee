\* One crank and a rival: a process that dies, calls that fail, a dead oracle.
SPECIFICATION FairCrankSpec
CONSTANTS
  Instance = {k1}
  Account = {a1, a2, a3, a4, a5}
  RivalAccount = rival
  NoKey = NoKey
  CIRCUIT_BREAKER_THRESHOLD = 2
  PERIODIC_SWEEP_INTERVAL = 2
  MaxFaults = 2
  MaxStops = 1
  MaxRaces = 1
INVARIANTS
  BreakersNeedFaults
PROPERTIES
  EpochsKeepAdvancing
  RandomnessIsReclaimed
CHECK_DEADLOCK FALSE
