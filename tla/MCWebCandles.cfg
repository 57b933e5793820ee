\* A post delivered again is counted again: TradesCountOnce.
SPECIFICATION WebSpec
CONSTANTS
  Log <- MixedLog
  RESOLUTION_SECONDS = {1, 2}
  MAX_TX_AGE_SECONDS = 0
  PRICE_SCALE = 1
  Request = {r1}
  Backfill = backfill
  MaxTime = 1
  MaxBatch = 1
  MaxMishaps = 1
  MaxBackfills = 0
  Account = {pool}
  SystemAccount = {}
  Tab = {t1}
  MaxFailures = 0
  MaxSlot = 1
  MaxHides = 0
  home = home
  office = office
  s1 = s1
  s2 = s2
  s3 = s3
  s4 = s4
  Ip = {home, office}
  Stream = {s1, s2, s3, s4}
  clientIp <- ClientIp
  MAX_PER_IP = 2
  MAX_GLOBAL = 3
  MaxResets = 0
INVARIANTS
  TradesCountOnce
CHECK_DEADLOCK FALSE
