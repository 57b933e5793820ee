\* The launch from the first mint to the open pools or the last refund, with two
\* users on each curve and, by part, one crash of either script, two conversions,
\* or a trade in CRIME of several sizes and sales.
SPECIFICATION MCSpec
CONSTANTS
  User = {u1, u2}
  P_START = 1
  P_END = 3
  TOTAL_FOR_SALE = 4
  TOKEN_DECIMAL_FACTOR = 1
  PRECISION = 10
  TARGET_TOKENS = 4
  MAX_TOKENS_PER_WALLET = 3
  MIN_PURCHASE_SOL = 2
  SELL_TAX_BPS = 1500
  SELL_TAX_DENOMINATOR = 10000
  SOLVENCY_BUFFER_LAMPORTS = 1
  RENT = 1
  DEADLINE_SLOTS = 1
  FAILURE_GRACE_SLOTS = 0
  Purchases = {2, 3, 5}
  Sales = {1, 2}
  MaxSlot = 2
  MaxSales = 3
  TOTAL_SUPPLY <- Supply
  VAULT_SEED <- Seeds
  MINIMUM_STAKE = 1
  MaxStops = 1
  GRADUATION_POOL_SEED_TOKEN = 3
  MIN_POOL_SEED_SOL = 2
  TX_FEE = 1
  OverrideSol = 4
  CONVERSION_RATE = 2
  Conversions = {1, 2}
  MaxConversions = 2
  Parts = {"crashes", "conversions", "trades"}
INVARIANTS
  CurveTypeOK
  GraduationExcludesRefund
  VaultMatchesTrades
  TokensArePlaced
  PoolsOpenAtCurveValue
PROPERTIES
  RefundsShareAlike
  TradesFollowCurve
  LaunchResolves
CHECK_DEADLOCK FALSE
