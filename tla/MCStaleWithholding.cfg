CONSTANTS
  Requests = {r1, r2}
  None = None
  Typed = Typed
  Projections = {1}
  Bodies <- Dividend9
  Patches <- Reprice
  Files = {}
  Histories = {}
  Entries = {}
  YearEnd = 5
  MaxRows = 1
  Match <- MCMatch
SPECIFICATION Spec
INVARIANT WithholdingCurrent
