SPECIFICATION Spec
CONSTANTS
  Requests = {r1, r2, r3}
  Passphrases = {p1, p2}
  Past = Past
  None = None
SYMMETRY Symmetry
INVARIANT KeyHeldForSession
