SPECIFICATION Spec
CONSTANTS
  MaxTime = 3
  Prices <- MCPrices
  Bar <- MCBar
  Points = {0, 1}
  None = None
  MaxTrades = 1
INVARIANTS    IndexesMatch
