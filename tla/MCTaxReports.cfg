SPECIFICATION HistorySpec
CONSTANTS
  Ids <- MCIds
  Ledgers <- MCReportLedgers
  Years <- MCYears
  Columns <- MCColumns
  PageLimit <- MCPageLimit
  Incomes <- MCIncomes
INVARIANTS
  TypeOK
  StatutoryOrder
  EveryShareIdentifiedOnce
  PoolIsHolding
  LifetimeGainIsProfit
  ReturnReconciles
  PoolIsEvidenced
  ReplaysAgree
  IncomeReconciles
