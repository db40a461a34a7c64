SPECIFICATION Spec
CONSTANTS
  Ids <- MCLifeIds
  Ledgers <- SplitLife
INVARIANT WholeLifeGainIsProfit
