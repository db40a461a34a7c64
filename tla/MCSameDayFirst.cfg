SPECIFICATION Spec
CONSTANTS
  Ids <- MCIds
  Ledgers <- Trades
INVARIANT SameDayFirst
