CONSTANTS
  Processes = {p1, p2, p3}
  None = None
SYMMETRY Symmetry
CONSTRAINT Followed
SPECIFICATION Spec
INVARIANTS TypeOK Exclusive NothingLost
PROPERTIES NoDowngrade
CHECK_DEADLOCK FALSE
