SPECIFICATION Spec
CONSTANTS
  Requests = {r1, r2}
  Passphrases = {p1, p2}
  Past = Past
  None = None
PROPERTY KeyDropped
