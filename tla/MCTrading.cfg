\* Two transactions of the form among one trade of others and one new epoch, with
\* a retry of what was given up and may still land.
SPECIFICATION Spec
CONSTANTS
  CONVERSION_RATE = 10
  SPLIT_RATIOS = {25, 50, 75}
  SPLIT_THRESHOLD_BPS = 50
  FLICKER_THRESHOLD_BPS = 10
  Pairs <- MCPairs
  Amounts <- MCAmounts
  Holdings <- MCHoldings
  Pools <- MCPools
  VaultSeed <- MCVaultSeed
  LOW_TAX_BPS = 300
  HIGH_TAX_BPS = 1400
  SlippageBps = 500
  RivalTrades <- MCRivalTrades
  RivalAmount = 300
  MaxSent = 2
  MaxRivals = 1
  MaxEpochs = 1
INVARIANTS
  TaxSharesAreFair
  FreshRoutesLand
  NoSolStaysWrapped
PROPERTIES
  RoutesKeepTheirTerms
CHECK_DEADLOCK FALSE
