CONSTANTS
  Requests = {r1, r2}
  None = None
  Typed = Typed
  Projections = {1}
  Bodies <- MCBodies
  Patches <- MCPatches
  Files <- MCFiles
  Histories <- MCHistories
  Entries <- MCEntries
  YearEnd = 5
  MaxRows = 3
  Match <- MCMatch
SYMMETRY Symmetry
CONSTRAINT Followed
SPECIFICATION Spec
INVARIANTS TypeOK DerivedFollows ReferencesLive
PROPERTIES TypedKept LinkKept RejectionKeeps
