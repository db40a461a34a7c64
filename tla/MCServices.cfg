SPECIFICATION Spec
CONSTANTS
  Actors = {c1, c2}
  Past = Past
  None = None
  Passphrases = {k1, k2}
  UnattendedKeys = {u1, u2}
  Keep = 1
  Day = 1
  Recent = 1
  Versions = 2
  MaxEntries = 2
  MaxTaken = 3
  MaxTime = 1
  LastDay = 3
  Trading = {1, 3}
  DaysBack = 1
  Rows = {k1}
  MaxSessions = 2
  MaxKeys = 2
  MaxForms = 2
  MaxInstruments = 2
  Holdings = {k1, k2}
  Choices = {1, 2}
  MaxData = 2
SYMMETRY SymmetricValues
CONSTRAINT Bounded
INVARIANTS
  TypeOK SlotsOpenData RotationTold OldCiphertextPending ReplacedKept RatesAgree
  PriceNotOlder NoPlaintext UnconfirmedIsAsked RecordedAsEntered ShownAsSelected
PROPERTIES
  UnattendedCarried CopiesProtect
CHECK_DEADLOCK FALSE
