SPECIFICATION Spec
CONSTANTS
  Requests = {r1, r2, r3}
  Passphrases = {p1, p2}
  Past = Past
  None = None
SYMMETRY Symmetry
INVARIANTS
  TypeOK
  LoginOpensData
  OneDataKey
  SignedInIsUnlocked
  SafetyCopyKept
  ConfirmedKeyTypedBack
PROPERTY ImplementsVault
